---- MODULE Spec2Model ----
(***************************************************************************)
(* Model of the match-document pipeline of galo-atletas: upload, parse,    *)
(* ingest (event materialisation), player-stats rebuild and fixture sync,  *)
(* with the run ledger (sync_runs).                                        *)
(*                                                                         *)
(* Every handler is a sequence of steps, one per awaited store request.    *)
(* A store request has one of three outcomes:                              *)
(*   "ok"   it is applied and the client sees no error;                    *)
(*   "fail" it is not applied and the client sees { error };               *)
(*   "lost" (writes only) it is applied, but the response never arrives    *)
(*          and the client sees { error } (supabase-js turns a failed      *)
(*          fetch into an error result).                                   *)
(* sha256 is modelled as injective: a hash is represented by its payload.  *)
(***************************************************************************)
EXTENDS Integers, Sequences, FiniteSets, TLC

\* ------------------------------------------------------------------ bounds
\* Handler invocations in one behaviour.
MaxOps == 4
\* Invocations started in a behaviour of the runs specification.
MaxRuns == 2

\* ----------------------------------------------------------------- options
None == <<>>
Some(v) == <<v>>
IsSome(o) == Len(o) = 1
Get(o) == o[1]

\* ------------------------------------------------------------ store faults
ReadOutcomes == {"ok", "fail"}
WriteOutcomes == {"ok", "fail", "lost"}
Applied(o) == o \in {"ok", "lost"}
Errored(o) == o \in {"fail", "lost"}

\* -------------------------------------------------------------- identities
Scopes == {"PROD", "SANDBOX"}
MatchIds == {"m1"}
SandboxIds == {"s1"}

\* upload/route.ts:54  `${scope}:${scopeId}`
MatchKeyOf(scope, scopeId) == scope \o ":" \o scopeId

ToLower(scope) == IF scope = "PROD" THEN "prod" ELSE "sandbox"

\* upload/route.ts:55
StoragePathOf(scope, scopeId) ==
  "sumulas/" \o ToLower(scope) \o "/" \o scopeId \o "/FPF_SUMULA.pdf"

MatchKeys == {MatchKeyOf("PROD", m) : m \in MatchIds}
               \cup {MatchKeyOf("SANDBOX", s) : s \in SandboxIds}

StoragePaths == {StoragePathOf("PROD", m) : m \in MatchIds}
                  \cup {StoragePathOf("SANDBOX", s) : s \in SandboxIds}

\* documents.id is gen_random_uuid(): a fresh id per inserted row.  There is
\* at most one row per match_key (unique index source,doc_type,match_key).
NewDocumentId(matchKey) == "doc/" \o matchKey

\* A well-formed uuid that names no document.
UnknownDocumentId == "doc/unknown"

\* ----------------------------------------------------------------- strings
\* JavaScript strings are TLA+ strings; characters are strings of length 1.
CharAt(s, i) == SubSeq(s, i, i)
Drop(s, n) == SubSeq(s, n + 1, Len(s))
Take(s, n) == SubSeq(s, 1, n)

LowerChars == "abcdefghijklmnopqrstuvwxyz"
UpperChars == "ABCDEFGHIJKLMNOPQRSTUVWXYZ"
DigitChars == "0123456789"

IsIn(c, chars) == \E i \in 1..Len(chars) : CharAt(chars, i) = c
IsLetter(c) == IsIn(c, LowerChars) \/ IsIn(c, UpperChars)
IsDigit(c) == IsIn(c, DigitChars)
IsSpace(c) == c = " "
\* \w of a JavaScript regular expression.
IsWordChar(c) == IsLetter(c) \/ IsDigit(c) \/ c = "_"

UpperChar(c) ==
  IF IsIn(c, LowerChars)
    THEN CharAt(UpperChars, CHOOSE i \in 1..Len(LowerChars) : CharAt(LowerChars, i) = c)
    ELSE c

\* String.prototype.toUpperCase
RECURSIVE ToUpperCase(_)
ToUpperCase(s) ==
  IF s = "" THEN "" ELSE UpperChar(CharAt(s, 1)) \o ToUpperCase(Drop(s, 1))

\* String.prototype.includes
Includes(s, sub) ==
  \E i \in 1..(Len(s) - Len(sub) + 1) : SubSeq(s, i, i + Len(sub) - 1) = sub

RECURSIVE TrimStart(_)
TrimStart(s) ==
  IF s # "" /\ IsSpace(CharAt(s, 1)) THEN TrimStart(Drop(s, 1)) ELSE s

RECURSIVE TrimEnd(_)
TrimEnd(s) ==
  IF s # "" /\ IsSpace(CharAt(s, Len(s))) THEN TrimEnd(Take(s, Len(s) - 1)) ELSE s

\* String.prototype.trim
Trim(s) == TrimEnd(TrimStart(s))

\* value.replace(/\s+/g, " "): every run of white space becomes one space.
RECURSIVE CollapseSpaces(_)
CollapseSpaces(s) ==
  IF s = "" THEN ""
  ELSE IF IsSpace(CharAt(s, 1))
    THEN " " \o CollapseSpaces(TrimStart(s))
    ELSE CharAt(s, 1) \o CollapseSpaces(Drop(s, 1))

\* ingest/route.ts:114  value.replace(/\s+/g, " ").trim()
normalizeName(value) == Trim(CollapseSpaces(value))

\* runMatches parser: normalizeWhitespace, the same expression.
normalizeWhitespace(value) == Trim(CollapseSpaces(value))

\* Array.prototype.join for an array of strings.
RECURSIVE Join(_, _)
Join(fields, sep) ==
  IF Len(fields) = 0 THEN ""
  ELSE IF Len(fields) = 1 THEN fields[1]
  ELSE fields[1] \o sep \o Join(Tail(fields), sep)

\* Number(digits) for a string of decimal digits.
DigitValue(c) == (CHOOSE i \in 1..Len(DigitChars) : CharAt(DigitChars, i) = c) - 1
RECURSIVE ToNumber(_)
ToNumber(digits) ==
  IF digits = "" THEN 0
  ELSE 10 * ToNumber(Take(digits, Len(digits) - 1)) + DigitValue(CharAt(digits, Len(digits)))

\* Array.prototype.map on sequences (filter is SelectSeq).
SeqMap(seq, F(_)) == [i \in 1..Len(seq) |-> F(seq[i])]
Range(seq) == {seq[i] : i \in 1..Len(seq)}

\* ------------------------------------------------- uploaded files (inputs)
\* An uploaded PDF is identified by its bytes; PdfText is what pdf-parse
\* returns for them, as the sequence of its lines (text.split(/\r?\n/)).
Files == {"pdfA", "pdfB", "pdfDup", "pdfEmpty"}

PdfText(file) ==
  CASE file = "pdfA" ->
         <<"MANDANTE  TITULARES", "10 Ana", "RESERVAS", "Bia", "">>
    [] file = "pdfB" ->
         <<"MANDANTE TITULARES", "Bia", "VISITANTE TITULARES", "9 - Caio", "x1">>
    [] file = "pdfDup" ->
         <<"MANDANTE TITULARES", "10 Ana", "10  Ana">>
    [] OTHER -> <<"  ", "">>

\* createHash("sha256").update(bytes).digest("hex")
Sha256OfFile(file) == "sha256(" \o file \o ")"

\* parsed.text?.trim(): the text without its leading and trailing blank lines.
RECURSIVE TrimLines(_)
TrimLines(lines) ==
  IF lines = <<>> THEN <<>>
  ELSE IF Trim(lines[1]) = "" THEN TrimLines(Tail(lines))
  ELSE IF Trim(lines[Len(lines)]) = "" THEN TrimLines(SubSeq(lines, 1, Len(lines) - 1))
  ELSE lines

\* cron/matches/route.ts:104  extractPdfRawText: throws on empty text.
extractPdfRawText(file) ==
  LET text == TrimLines(PdfText(file))
  IN IF text = <<>> THEN [threw |-> TRUE, text |-> <<>>]
                    ELSE [threw |-> FALSE, text |-> text]

\* --------------------------------------------------------- canonical parser
RegistryWords == {"CBF", "REGISTRO", "RG", "CPF"}

\* A match of /\b(CBF|REGISTRO|RG|CPF)\b/i starting at position i of line.
RegistryWordAt(line, i) ==
  \E w \in RegistryWords :
    /\ i + Len(w) - 1 <= Len(line)
    /\ ToUpperCase(SubSeq(line, i, i + Len(w) - 1)) = w
    /\ (i = 1 \/ ~IsWordChar(CharAt(line, i - 1)))
    /\ (i + Len(w) > Len(line) \/ ~IsWordChar(CharAt(line, i + Len(w))))

\* line.replace(/\b(CBF|REGISTRO|RG|CPF)\b.*$/i, "")
StripRegistry(line) ==
  LET hits == {i \in 1..Len(line) : RegistryWordAt(line, i)}
  IN IF hits = {} THEN line
     ELSE Take(line, (CHOOSE i \in hits : \A j \in hits : i <= j) - 1)

RECURSIVE LeadingDigits(_)
LeadingDigits(s) ==
  IF s # "" /\ IsDigit(CharAt(s, 1)) THEN 1 + LeadingDigits(Drop(s, 1)) ELSE 0

IsNameChar(c) == IsLetter(c) \/ c \in {"'", " ", ".", "-"}

\* [A-Za-z...][A-Za-z...' .-]{1,60}$
IsNamePart(s) ==
  /\ Len(s) >= 2
  /\ Len(s) <= 61
  /\ IsLetter(CharAt(s, 1))
  /\ \A i \in 2..Len(s) : IsNameChar(CharAt(s, i))

\* The text after (\d{1,2})\s*[-.)]?\s*
AfterShirtNumber(s) ==
  LET a == TrimStart(s)
      b == IF a # "" /\ CharAt(a, 1) \in {"-", ".", ")"} THEN Drop(a, 1) ELSE a
  IN TrimStart(b)

\* runMatches parser: parseAthleteLine(line): CanonicalAthlete | null
parseAthleteLine(line) ==
  LET clean == normalizeWhitespace(StripRegistry(line))
      n == LeadingDigits(clean)
      namePart == IF n = 0 THEN clean ELSE AfterShirtNumber(Drop(clean, n))
      name == normalizeWhitespace(namePart)
  IN IF clean = "" \/ Len(clean) < 3 THEN None
     ELSE IF n > 2 \/ ~IsNamePart(namePart) THEN None
     ELSE IF Len(name) < 3 THEN None
     ELSE Some([shirt_number |-> IF n = 0 THEN None ELSE Some(ToNumber(Take(clean, n))),
                name |-> name])

\* normalizeHeader: NFD, strip the accents, toUpperCase.
normalizeHeader(value) == ToUpperCase(value)

EmptyLineups ==
  [home |-> [starters |-> <<>>, reserves |-> <<>>],
   away |-> [starters |-> <<>>, reserves |-> <<>>]]

\* One iteration of the loop of parseLineups over `line`; st is
\* [team, role, lineups] with team/role "" for null.
ParseLineupsStep(st, line) ==
  LET header == normalizeHeader(line)
      team == IF Includes(header, "MANDANTE") \/ Includes(header, "HOME") THEN "HOME"
              ELSE IF Includes(header, "VISITANTE") \/ Includes(header, "AWAY") THEN "AWAY"
              ELSE st.team
      athlete == parseAthleteLine(line)
      side == IF team = "HOME" THEN "home" ELSE "away"
      list == IF st.role = "STARTER" THEN "starters" ELSE "reserves"
  IN IF Includes(header, "TITULARES") \/ Includes(header, "TITULAR")
       THEN [st EXCEPT !.team = team, !.role = "STARTER"]
     ELSE IF Includes(header, "RESERVAS") \/ Includes(header, "RESERVA")
       THEN [st EXCEPT !.team = team, !.role = "RESERVE"]
     ELSE IF team = "" \/ st.role = "" \/ ~IsSome(athlete)
       THEN [st EXCEPT !.team = team]
     ELSE [st EXCEPT !.team = team,
                     !.lineups[side][list] = Append(@, Get(athlete))]

RECURSIVE ParseLineupsFrom(_, _)
ParseLineupsFrom(st, lines) ==
  IF lines = <<>> THEN st
  ELSE ParseLineupsFrom(ParseLineupsStep(st, Head(lines)), Tail(lines))

\* runMatches parser: parseLineups(lines)
parseLineups(lines) ==
  ParseLineupsFrom([team |-> "", role |-> "", lineups |-> EmptyLineups], lines).lineups

IsNonEmptyLine(line) == Len(line) > 0

\* parseToCanonical(rawText).  match_meta (parseTeams, parseScore) is always
\* an object; nothing modelled here reads more of it than its presence.
parseToCanonical(rawText) ==
  LET lines == SelectSeq(SeqMap(rawText, normalizeWhitespace), IsNonEmptyLine)
  IN [match_meta |-> TRUE,
      lineups |-> parseLineups(lines),
      events |-> <<>>]

\* ------------------------------------------------------- event identities
\* String(field) of a number / of a nullable number (null, undefined -> "").
NumStr(n) == ToString(n)
OptNumStr(o) == IF IsSome(o) THEN ToString(Get(o)) ELSE ""

\* ingest/route.ts:109  stableEventUid: sha256 of the '|'-joined payload;
\* fields are given already converted by String().
stableEventUid(kind, matchKey, fields) == Join(<<kind, matchKey>> \o fields, "|")

\* ingest/route.ts:118  parseCanonical: null unless the stored JSON has
\* match_meta, the four lineup arrays and an events array.
parseCanonical(input) ==
  IF ~IsSome(input) THEN None
  ELSE IF ~Get(input).match_meta THEN None
  ELSE input

HasName(row) == row.athlete_name_raw # ""

\* ingest/route.ts:238  toLineupRows
toLineupRows(documentId, matchId, matchKey, side, role, athletes) ==
  LET RowOf(athlete) ==
        LET athleteName == normalizeName(athlete.name)
        IN [match_id |-> matchId,
            team_side |-> side,
            athlete_id |-> None,
            athlete_name_raw |-> athleteName,
            cbf_registry |-> None,
            shirt_number |-> athlete.shirt_number,
            role |-> role,
            is_captain |-> FALSE,
            document_id |-> documentId,
            match_key |-> matchKey,
            event_uid |-> stableEventUid("lineup", matchKey,
                            <<side, role, athleteName,
                              OptNumStr(athlete.shirt_number), "false">>)]
  IN SelectSeq(SeqMap(athletes, RowOf), HasName)

\* ingest/route.ts:360  the four toLineupRows calls, concatenated.
LineupRowsOf(documentId, matchId, matchKey, canonical) ==
  toLineupRows(documentId, matchId, matchKey, "HOME", "STARTER", canonical.lineups.home.starters)
    \o toLineupRows(documentId, matchId, matchKey, "HOME", "RESERVE", canonical.lineups.home.reserves)
    \o toLineupRows(documentId, matchId, matchKey, "AWAY", "STARTER", canonical.lineups.away.starters)
    \o toLineupRows(documentId, matchId, matchKey, "AWAY", "RESERVE", canonical.lineups.away.reserves)

\* ----------------------------------------------- canonical events (JSON)
\* A JSON value of an event: null/undefined, a number or a string.
JNull == [j |-> "null"]
JNum(n) == [j |-> "num", n |-> n]
JStr(str) == [j |-> "str", s |-> str]
IsStr(v) == v.j = "str"
IsNum(v) == v.j = "num"
\* A number that is not an integer, given in tenths: JDec(455) is 45.5.
JDec(tenths) == [j |-> "dec", tenths |-> tenths]
IsDec(v) == v.j = "dec"

\* ingest/route.ts:128  parseHalf: 0 stands for null.
parseHalf(input) ==
  IF (IsNum(input) /\ input.n = 1) \/ (IsStr(input) /\ input.s = "1") THEN 1
  ELSE IF (IsNum(input) /\ input.n = 2) \/ (IsStr(input) /\ input.s = "2") THEN 2
  ELSE 0

IsDigits(str) == \A i \in 1..Len(str) : IsDigit(CharAt(str, i))

\* ingest/route.ts:134  parseMinute: None stands for null; Math.floor of a
\* non-negative number in tenths is the quotient by 10.
parseMinute(input) ==
  IF IsNum(input) /\ input.n >= 0 THEN Some(input.n)
  ELSE IF IsDec(input) /\ input.tenths >= 0 THEN Some(input.tenths \div 10)
  ELSE IF IsStr(input) /\ Len(Trim(input.s)) \in 1..3 /\ IsDigits(Trim(input.s))
    THEN Some(ToNumber(Trim(input.s)))
  ELSE None

\* ingest/route.ts:140  parseTeamSide: "" stands for null.
parseTeamSide(input) ==
  IF IsStr(input) /\ Trim(ToUpperCase(input.s)) \in {"HOME", "AWAY"}
    THEN Trim(ToUpperCase(input.s))
    ELSE ""

\* typeof v === "string" ? normalizeName(v) : ""
NameOrEmpty(v) == IF IsStr(v) THEN normalizeName(v.s) ELSE ""

CardTypes == {"YELLOW", "RED", "SECOND_YELLOW"}

\* ingest/route.ts:159-232  the body of the loop of parseCanonicalEvents for
\* one event: [table, row], table "" when the event is dropped.
EventRowOf(event, documentId, matchId, matchKey) ==
  LET eventType == IF IsStr(event.type) THEN Trim(ToUpperCase(event.type.s)) ELSE ""
      teamSide == parseTeamSide(event.team_side)
      half == parseHalf(event.half)
      minute == parseMinute(event.minute)
      base == [match_id |-> matchId, team_side |-> teamSide, half |-> half,
               minute |-> IF IsSome(minute) THEN Get(minute) ELSE 0,
               document_id |-> documentId, match_key |-> matchKey]
      dropped == [table |-> "", row |-> base]
  IN IF teamSide = "" \/ half = 0 \/ ~IsSome(minute) THEN dropped
     ELSE IF eventType = "GOAL" THEN
       LET athleteName == NameOrEmpty(event.athlete_name)
           kind == IF IsStr(event.kind) /\ Trim(event.kind.s) # ""
                     THEN ToUpperCase(Trim(event.kind.s)) ELSE "GOAL"
       IN [table |-> "match_goals",
           row |-> base @@ [athlete_id |-> None, athlete_name_raw |-> athleteName,
                            cbf_registry |-> None, kind |-> kind,
                            event_uid |-> stableEventUid("goal", matchKey,
                              <<teamSide, NumStr(half), NumStr(Get(minute)), kind, athleteName>>)]]
     ELSE IF eventType = "CARD" THEN
       LET cardTypeCandidate == IF IsStr(event.card_type)
                                  THEN Trim(ToUpperCase(event.card_type.s)) ELSE ""
           athleteName == NameOrEmpty(event.athlete_name)
           reason == NameOrEmpty(event.reason)
       IN IF cardTypeCandidate \notin CardTypes THEN dropped
          ELSE [table |-> "match_cards",
                row |-> base @@ [athlete_id |-> None, athlete_name_raw |-> athleteName,
                                 card_type |-> cardTypeCandidate, reason |-> reason,
                                 event_uid |-> stableEventUid("card", matchKey,
                                   <<teamSide, NumStr(half), NumStr(Get(minute)),
                                     cardTypeCandidate, athleteName, reason>>)]]
     ELSE IF eventType = "SUBSTITUTION" THEN
       LET athleteOut == NameOrEmpty(event.athlete_out_name)
           athleteIn == NameOrEmpty(event.athlete_in_name)
       IN IF athleteOut = "" \/ athleteIn = "" THEN dropped
          ELSE [table |-> "match_substitutions",
                row |-> base @@ [athlete_out_id |-> None, athlete_in_id |-> None,
                                 athlete_out_name_raw |-> athleteOut,
                                 athlete_in_name_raw |-> athleteIn,
                                 event_uid |-> stableEventUid("substitution", matchKey,
                                   <<teamSide, NumStr(half), NumStr(Get(minute)),
                                     athleteOut, athleteIn>>)]]
     ELSE dropped

\* ingest/route.ts:149  parseCanonicalEvents: the rows per table, in order.
parseCanonicalEvents(events, documentId, matchId, matchKey) ==
  LET parsed == [i \in 1..Len(events) |-> EventRowOf(events[i], documentId, matchId, matchKey)]
      RowsFor(table) ==
        LET IsFor(e) == e.table = table
            RowOnly(e) == e.row
        IN SeqMap(SelectSeq(parsed, IsFor), RowOnly)
  IN [goals |-> RowsFor("match_goals"),
      cards |-> RowsFor("match_cards"),
      substitutions |-> RowsFor("match_substitutions")]

\* ------------------------------------------------------ derived statistics
\* rebuildPlayerStats.ts:105  stableUid: sha256 of the '|'-joined payload
\* (null fields as "").
stableUid(matchKey, fields) == Join(<<"player_stats", matchKey>> \o fields, "|")

MinOf(a, b) == IF a < b THEN a ELSE b
MaxOf(a, b) == IF a > b THEN a ELSE b
RECURSIVE MinOfSeq(_)
MinOfSeq(ns) == IF Len(ns) = 1 THEN ns[1] ELSE MinOf(ns[1], MinOfSeq(Tail(ns)))

\* A variant of toMatchMinute without the offset of the second half.
toMatchMinuteNoOffset(half, minute) == MinOf(120, MaxOf(0, minute))

\* rebuildPlayerStats.ts:111
toMatchMinute(half, minute) ==
  LET halfOffset == IF half = 2 THEN 45 ELSE 0
  IN MinOf(120, halfOffset + MaxOf(0, minute))

\* An athlete id as text ("" for null).
IdStr(athleteId) == IF IsSome(athleteId) THEN Get(athleteId) ELSE ""

\* rebuildPlayerStats.ts:117  createPlayerKey: "" stands for null.
createPlayerKey(teamSide, athleteId, athleteNameRaw) ==
  IF IsSome(athleteId) /\ Get(athleteId) # "" THEN "id:" \o Get(athleteId)
  ELSE IF normalizeName(athleteNameRaw) = "" THEN ""
  ELSE "name:" \o teamSide \o ":" \o ToUpperCase(normalizeName(athleteNameRaw))

\* input.cbf_registry?.trim() || null
TrimOrNull(registry) ==
  IF IsSome(registry) /\ Trim(Get(registry)) # "" THEN Some(Trim(Get(registry))) ELSE None

\* The position of the accumulator with the key in the map, 0 when absent.
PlayerIndex(players, key) ==
  IF \E i \in 1..Len(players) : players[i].key = key
    THEN CHOOSE i \in 1..Len(players) : players[i].key = key
    ELSE 0

\* rebuildPlayerStats.ts:124  ensurePlayer: the map after the call and the
\* position of the accumulator it returns (0 for null).  The map keeps its
\* insertion order.
ensurePlayer(players, input) ==
  LET key == createPlayerKey(input.team_side, input.athlete_id, input.athlete_name_raw)
      at == PlayerIndex(players, key)
      created == [key |-> key, team_side |-> input.team_side, athlete_id |-> input.athlete_id,
                  athlete_name_raw |-> normalizeName(input.athlete_name_raw),
                  cbf_registry |-> TrimOrNull(input.cbf_registry),
                  started |-> FALSE, is_captain |-> FALSE, participated |-> FALSE,
                  goals |-> 0, assists |-> 0, yellow_cards |-> 0, red_cards |-> 0,
                  sub_in_minutes |-> <<>>, sub_out_minutes |-> <<>>]
  IN IF key = "" THEN [players |-> players, at |-> 0]
     ELSE IF at # 0
       THEN [players |-> [players EXCEPT
                            ![at].athlete_name_raw =
                               IF @ # "" THEN @ ELSE normalizeName(input.athlete_name_raw),
                            ![at].cbf_registry =
                               IF IsSome(@) THEN @ ELSE TrimOrNull(input.cbf_registry)],
             at |-> at]
     ELSE [players |-> Append(players, created), at |-> Len(players) + 1]

\* rebuildPlayerStats.ts:263-268  what a card adds to yellow_cards and to
\* red_cards.
YellowIncrement(cardType) == IF cardType \in {"YELLOW", "SECOND_YELLOW"} THEN 1 ELSE 0
\* A variant of RedIncrement that counts a second yellow card as yellow only.
RedIncrementRedOnly(cardType) == IF cardType = "RED" THEN 1 ELSE 0
RedIncrement(cardType) == IF cardType \in {"RED", "SECOND_YELLOW"} THEN 1 ELSE 0

\* rebuildPlayerStats.ts:224-296  the body of each of the four loops, for one
\* stored row of the named table.
AccumulateRow(players, table, row) ==
  IF table = "match_lineups" THEN
    LET e == ensurePlayer(players, [team_side |-> row.team_side, athlete_id |-> row.athlete_id,
                                    athlete_name_raw |-> row.athlete_name_raw,
                                    cbf_registry |-> row.cbf_registry])
    IN IF e.at = 0 THEN e.players
       ELSE [e.players EXCEPT
               ![e.at].started = @ \/ ToUpperCase(row.role) \in {"STARTER", "GK_STARTER"},
               ![e.at].is_captain = @ \/ row.is_captain,
               ![e.at].participated = TRUE]
  ELSE IF table = "match_goals" THEN
    LET e == ensurePlayer(players, [team_side |-> row.team_side, athlete_id |-> row.athlete_id,
                                    athlete_name_raw |-> row.athlete_name_raw,
                                    cbf_registry |-> row.cbf_registry])
    IN IF e.at = 0 THEN e.players
       ELSE [e.players EXCEPT
               ![e.at].assists = IF ToUpperCase(row.kind) = "ASSIST" THEN @ + 1 ELSE @,
               ![e.at].goals = IF ToUpperCase(row.kind) = "ASSIST" THEN @ ELSE @ + 1,
               ![e.at].participated = TRUE]
  ELSE IF table = "match_cards" THEN
    LET e == ensurePlayer(players, [team_side |-> row.team_side, athlete_id |-> row.athlete_id,
                                    athlete_name_raw |-> row.athlete_name_raw,
                                    cbf_registry |-> None])
    IN IF e.at = 0 THEN e.players
       ELSE [e.players EXCEPT
               ![e.at].yellow_cards = @ + YellowIncrement(row.card_type),
               ![e.at].red_cards = @ + RedIncrement(row.card_type),
               ![e.at].participated = TRUE]
  ELSE
    LET minute == toMatchMinute(row.half, row.minute)
        out == ensurePlayer(players, [team_side |-> row.team_side,
                                      athlete_id |-> row.athlete_out_id,
                                      athlete_name_raw |-> row.athlete_out_name_raw,
                                      cbf_registry |-> None])
        afterOut == IF out.at = 0 THEN out.players
                    ELSE [out.players EXCEPT ![out.at].sub_out_minutes = Append(@, minute),
                                             ![out.at].participated = TRUE]
        in == ensurePlayer(afterOut, [team_side |-> row.team_side,
                                      athlete_id |-> row.athlete_in_id,
                                      athlete_name_raw |-> row.athlete_in_name_raw,
                                      cbf_registry |-> None])
    IN IF in.at = 0 THEN in.players
       ELSE [in.players EXCEPT ![in.at].sub_in_minutes = Append(@, minute),
                               ![in.at].participated = TRUE]

\* One loop: the rows of a table in the order the store returned them. The
\* map after a row is bound as a value before the loop goes on.
RECURSIVE AccumulateRows(_, _, _)
AccumulateRows(players, table, rows) ==
  IF Len(rows) = 0 THEN players
  ELSE CHOOSE result \in {AccumulateRows(next, table, Tail(rows)) :
                            next \in {AccumulateRow(players, table, Head(rows))}} : TRUE

\* A variant of BuildPlayers that leaves out the loop over the substitutions.
BuildPlayersWithoutSubstitutions(lineups, goals, cards, substitutions) ==
  AccumulateRows(
    AccumulateRows(
      AccumulateRows(<<>>, "match_lineups", lineups),
      "match_goals", goals),
    "match_cards", cards)

\* rebuildPlayerStats.ts:222-296  the map after the four loops.
BuildPlayers(lineups, goals, cards, substitutions) ==
  AccumulateRows(
    AccumulateRows(
      AccumulateRows(
        AccumulateRows(<<>>, "match_lineups", lineups),
        "match_goals", goals),
      "match_cards", cards),
    "match_substitutions", substitutions)

\* A variant of MinutesPlayed without the test of hasStart: an athlete who
\* never entered is given the whole match.
MinutesWithoutStart(player) ==
  LET hasIn == Len(player.sub_in_minutes) > 0
      hasOut == Len(player.sub_out_minutes) > 0
      firstOutMinute == IF hasOut THEN MinOfSeq(player.sub_out_minutes) ELSE 0
      startMinute == IF player.started THEN 0
                     ELSE IF hasIn THEN MinOfSeq(player.sub_in_minutes)
                     ELSE 0
      endMinute == IF hasOut THEN MinOf(90, firstOutMinute) ELSE 90
  IN MaxOf(0, endMinute - startMinute)

\* rebuildPlayerStats.ts:302-311  minutes of one accumulator.
MinutesPlayed(player) ==
  LET hasIn == Len(player.sub_in_minutes) > 0
      hasOut == Len(player.sub_out_minutes) > 0
      firstOutMinute == IF hasOut THEN MinOfSeq(player.sub_out_minutes) ELSE 0
      hasStart == player.started \/ hasIn \/ hasOut
      startMinute == IF player.started THEN 0
                     ELSE IF hasIn THEN MinOfSeq(player.sub_in_minutes)
                     ELSE 0
      endMinute == IF hasOut THEN MinOf(90, firstOutMinute) ELSE 90
  IN IF hasStart THEN MaxOf(0, endMinute - startMinute) ELSE 0

\* rebuildPlayerStats.ts:313-335  the row of one accumulator.
StatsRowOf(player, input) ==
  [match_id |-> input.match_id, athlete_id |-> player.athlete_id,
   cbf_registry |-> player.cbf_registry, athlete_name_raw |-> player.athlete_name_raw,
   minutes_played |-> MinutesPlayed(player), started |-> player.started,
   is_captain |-> player.is_captain, participated |-> player.participated,
   goals |-> player.goals, assists |-> player.assists,
   yellow_cards |-> player.yellow_cards, red_cards |-> player.red_cards,
   team_side |-> player.team_side, source |-> "DERIVED",
   document_id |-> input.document_id, match_key |-> input.match_key,
   event_uid |-> stableUid(input.match_key,
                   <<player.team_side, IdStr(player.athlete_id), player.athlete_name_raw>>)]

\* rebuildPlayerStats.ts:222-336  the rows to insert, from the rows read.
StatsRowsOf(lineups, goals, cards, substitutions, input) ==
  CHOOSE rows \in {[i \in 1..Len(players) |-> StatsRowOf(players[i], input)] :
                     players \in {BuildPlayers(lineups, goals, cards, substitutions)}} : TRUE

\* ------------------------------------------------------- fixture records
\* competitions_registry, as the select of the active rows returns it; ""
\* is a null url_base.
competitions_registry ==
  <<[id |-> "c1", name |-> "Paranaense", season_year |-> 2026, url_base |-> "u1"],
    [id |-> "c2", name |-> "Taca", season_year |-> 2025, url_base |-> ""]>>
CompetitionIds == {competitions_registry[i].id : i \in 1..Len(competitions_registry)}

\* The order of the UTF-16 code units of the characters in use.
CodeUnitOrder == " -./" \o DigitChars \o ":" \o UpperChars \o LowerChars
CodeUnit(c) == CHOOSE i \in 1..Len(CodeUnitOrder) : CharAt(CodeUnitOrder, i) = c

\* a > b on strings
RECURSIVE StringGreater(_, _)
StringGreater(a, b) ==
  IF a = "" THEN FALSE
  ELSE IF b = "" THEN TRUE
  ELSE IF CharAt(a, 1) = CharAt(b, 1) THEN StringGreater(Drop(a, 1), Drop(b, 1))
  ELSE CodeUnit(CharAt(a, 1)) > CodeUnit(CharAt(b, 1))

\* part_002:499  normalizeText (the characters in use carry no accents)
normalizeText(value) == Trim(CollapseSpaces(ToUpperCase(value)))

\* part_002:509
isGaloMaringa(teamName) ==
  Includes(normalizeText(teamName), "GALO") /\ Includes(normalizeText(teamName), "MARINGA")

\* part_002:518  stableSourceUrl: "" is a null detailsUrl.
stableSourceUrl(input) ==
  IF input.detailsUrl # "" THEN input.detailsUrl
  ELSE Join(<<"FPF", input.competitionUrlBase, ToString(input.seasonYear), input.matchDateIso,
              normalizeText(input.homeTeam), normalizeText(input.awayTeam)>>, ":")

\* What the adapter can return for a competition page: the records found.
\* adapter.ts:171-180 and 445-448 keep one record per date and normalized
\* team names, each naming Galo Maringa; two rows of the page may carry the
\* same link (adapter.ts:369-370 takes the href as it is).
Fixture(homeTeam, awayTeam, detailsUrl) ==
  [match_date |-> "2026-03-01", home_team |-> homeTeam, away_team |-> awayTeam,
   goals_home |-> None, goals_away |-> None, details_url |-> detailsUrl]
SourcePages ==
  {<<>>,
   <<Fixture("Galo  Maringa", "Operario", "")>>,
   <<Fixture("Galo Maringa", "Operario", "u1/jogo/1")>>,
   <<Fixture("Galo Maringa", "Operario", "u1/jogo/1"),
     Fixture("Galo Maringa", "Londrina", "u1/jogo/1")>>}

\* What fetchMatchDetails can return for a details page: {} when the fetch
\* fails or finds nothing, else the fields it read ("" and None: undefined).
NoDetails ==
  [goals_home |-> None, goals_away |-> None, venue |-> "", kickoff_time |-> "",
   referee |-> "", home_team |-> "", away_team |-> ""]
DetailsResults ==
  {NoDetails, [NoDetails EXCEPT !.goals_home = Some(2), !.goals_away = Some(1),
                               !.venue = "Willie Davids"]}

\* a ?? b
Coalesce(a, b) == IF IsSome(a) THEN a ELSE b
OrElse(a, b) == IF a # "" THEN a ELSE b

\* part_002:653-702  the import rows of one fetched record (the flatMap body):
\* <<>> when the record is discarded.
ImportRowsOf(competition, item, details) ==
  LET resolvedHomeTeam == normalizeWhitespace(OrElse(details.home_team, item.home_team))
      resolvedAwayTeam == normalizeWhitespace(OrElse(details.away_team, item.away_team))
      galoHome == isGaloMaringa(resolvedHomeTeam)
      goalsHome == Coalesce(details.goals_home, item.goals_home)
      goalsAway == Coalesce(details.goals_away, item.goals_away)
      opponent == normalizeWhitespace(IF galoHome THEN resolvedAwayTeam ELSE resolvedHomeTeam)
      opponentNormalized == normalizeText(opponent)
  IN IF \/ opponent = "" \/ Len(opponent) > 60
        \/ Includes(opponentNormalized, "COOKIES")
        \/ Includes(opponentNormalized, "FEDERACAO PARANAENSE")
       THEN <<>>
       ELSE <<[competition_name |-> competition.name,
               season_year |-> competition.season_year,
               match_date |-> item.match_date,
               opponent |-> opponent,
               home |-> galoHome,
               goals_for |-> IF galoHome THEN goalsHome ELSE goalsAway,
               goals_against |-> IF galoHome THEN goalsAway ELSE goalsHome,
               source |-> "FPF",
               source_url |-> stableSourceUrl([competitionUrlBase |-> competition.url_base,
                                               seasonYear |-> competition.season_year,
                                               matchDateIso |-> item.match_date,
                                               homeTeam |-> resolvedHomeTeam,
                                               awayTeam |-> resolvedAwayTeam,
                                               detailsUrl |-> item.details_url]),
               venue |-> details.venue, kickoff_time |-> details.kickoff_time,
               referee |-> details.referee,
               home_team |-> resolvedHomeTeam, away_team |-> resolvedAwayTeam]>>

RECURSIVE Flatten(_)
Flatten(seqs) == IF Len(seqs) = 0 THEN <<>> ELSE Head(seqs) \o Flatten(Tail(seqs))

\* Array.prototype.sort with (a, b) => a.source_url > b.source_url ? 1 : -1,
\* as an insertion of each element in turn.
RECURSIVE InsertBySourceUrl(_, _)
InsertBySourceUrl(sorted, row) ==
  IF Len(sorted) = 0 THEN <<row>>
  ELSE IF StringGreater(sorted[Len(sorted)].source_url, row.source_url)
    THEN Append(InsertBySourceUrl(SubSeq(sorted, 1, Len(sorted) - 1), row), sorted[Len(sorted)])
    ELSE Append(sorted, row)
RECURSIVE SortBySourceUrl(_)
SortBySourceUrl(rows) ==
  IF Len(rows) = 0 THEN <<>>
  ELSE InsertBySourceUrl(SortBySourceUrl(SubSeq(rows, 1, Len(rows) - 1)), rows[Len(rows)])

\* part_002:514 and 704-720  hashPayload of the sorted batch: the digest is
\* represented by the payload it is taken of.
HashedFields(row) ==
  [source_url |-> row.source_url, match_date |-> row.match_date, opponent |-> row.opponent,
   home |-> row.home, goals_for |-> row.goals_for, goals_against |-> row.goals_against,
   venue |-> row.venue, kickoff_time |-> row.kickoff_time, referee |-> row.referee,
   home_team |-> row.home_team, away_team |-> row.away_team]
stateHashOf(importRows) == SortBySourceUrl(SeqMap(importRows, HashedFields))

\* matches.upsert(rows, { onConflict: "source,source_url" }): two rows of one
\* statement with the same (source, source_url) make the statement fail.
UpsertRejected(rows) ==
  \E i, j \in 1..Len(rows) :
    i # j /\ rows[i].source = rows[j].source /\ rows[i].source_url = rows[j].source_url
UpsertMatches(stored, rows) ==
  {old \in stored : ~\E i \in 1..Len(rows) :
      rows[i].source = old.source /\ rows[i].source_url = old.source_url}
    \cup Range(rows)

\* =================================================================== state
EventTables == {"match_lineups", "match_goals", "match_cards", "match_substitutions"}
Procs == {1, 2}

VARIABLES
  storage,            \* bucket match-reports: storage path -> file ("" = no object)
  documents,          \* table documents: set of rows
  event_tables,       \* the four event tables: table name -> set of rows
  match_player_stats, \* table match_player_stats: set of rows
  sync_runs,          \* table sync_runs (the run ledger): row i has id i
  run,                \* per request in flight: its locals and position
  ops,                \* handler invocations started so far
  lastIngest,         \* history: the outcome of the latest ingest run that returned
  matches,            \* table matches: set of rows
  sync_state,         \* table sync_state: competition id -> row (None when absent)
  lastSync,           \* history: the outcome of the latest fixture sync that returned
  sync_pending_links  \* table sync_pending_links: set of rows

vars == <<storage, documents, event_tables, match_player_stats, sync_runs, run, ops,
          lastIngest, matches, sync_state, lastSync, sync_pending_links>>

match_lineups == event_tables["match_lineups"]
match_goals == event_tables["match_goals"]
match_cards == event_tables["match_cards"]
match_substitutions == event_tables["match_substitutions"]

\* Locals of a request that is not running.
Idle ==
  [op |-> "", pc |-> "idle", documentId |-> "", matchKey |-> "", matchId |-> "",
   runId |-> 0, stage |-> "", failedAt |-> "", message |-> "", storeError |-> FALSE, fault |-> FALSE,
   req |-> <<>>, file |-> "", rawText |-> <<>>, canonical |-> None, rows |-> <<>>,
   statusAtStart |-> "", rowsAtStart |-> {}, statsAtStart |-> {}, queue |-> <<>>, stateHash |-> <<>>,
   fetched |-> <<>>, selected |-> {}, athleteId |-> "", remaining |-> 0,
   pool |-> <<>>,
   response |-> [http |-> 0, stage |-> ""]]

\* No fixture sync has returned yet.
NoSync == [ok |-> FALSE, fetched |-> <<>>]

\* sync_pending_links as the admin page finds it: unresolved links of kind
\* athlete_stat that name a stats row by match and raw name, and a link of
\* another kind (20260223_sync_pending_links.sql:3-10).
PendingLinks ==
  {[id |-> "p1", kind |-> "athlete_stat", resolved_at |-> FALSE,
    payload |-> [match_id |-> "m1", athlete_name_raw |-> "Bia", cbf_registry |-> ""]],
   [id |-> "p2", kind |-> "athlete_stat", resolved_at |-> FALSE,
    payload |-> [match_id |-> "m1", athlete_name_raw |-> "Zeca", cbf_registry |-> ""]],
   [id |-> "p3", kind |-> "roster", resolved_at |-> FALSE,
    payload |-> [match_id |-> "m1", athlete_name_raw |-> "Bia", cbf_registry |-> ""]]}

Init ==
  /\ storage = [path \in StoragePaths |-> ""]
  /\ documents = {}
  /\ event_tables = [t \in EventTables |-> {}]
  /\ match_player_stats = {}
  /\ sync_runs = <<>>
  /\ run = [p \in Procs |-> Idle]
  /\ ops = 0
  /\ lastIngest = [ok |-> FALSE, documentId |-> "", canonical |-> None, pairs |-> {},
                   repeated |-> FALSE]
  /\ matches = {}
  /\ sync_state = [c \in CompetitionIds |-> None]
  /\ lastSync = NoSync
  /\ sync_pending_links = PendingLinks

CanStart(p) == run[p].pc \in {"idle", "done"} /\ ops < MaxOps

\* The request returns: only what the response and the ledger id say stays.
Return(p, http, stage) ==
  [Idle EXCEPT !.op = run[p].op, !.pc = "done", !.documentId = run[p].documentId,
               !.matchKey = run[p].matchKey, !.runId = run[p].runId,
               !.storeError = run[p].storeError, !.fault = run[p].fault,
               !.failedAt = run[p].failedAt,
               !.statusAtStart = run[p].statusAtStart,
               !.rowsAtStart = run[p].rowsAtStart,
               !.statsAtStart = run[p].statsAtStart,
               !.response = [http |-> http, stage |-> stage]]

DocumentsWithId(id) == {d \in documents : d.id = id}
DocumentsWithKey(matchKey) == {d \in documents : d.match_key = matchKey}
TheDocument(id) == CHOOSE d \in documents : d.id = id

\* documents.update(patch).eq("id", id): patch is applied by Patch(row).
UpdateDocument(id, Patch(_)) == {IF d.id = id THEN Patch(d) ELSE d : d \in documents}

\* A store error seen by the request p (used to tell clean runs apart).
NoteError(r, o) == [r EXCEPT !.storeError = @ \/ Errored(o), !.fault = @ \/ Errored(o)]

\* ================================================================== upload
\* The form fields after trim()/toUpperCase(); file "" is a missing file.
UploadRequests ==
  [scope : {"", "PROD", "SANDBOX"}, match_id : {""} \cup MatchIds,
   sandbox_match_id : {""} \cup SandboxIds, file : {""} \cup Files,
   type : {"application/pdf", "text/plain"}]

\* upload/route.ts:34
ScopeOf(req) == IF req.scope = "SANDBOX" THEN "SANDBOX" ELSE "PROD"
\* upload/route.ts:53
ScopeIdOf(req) == IF ScopeOf(req) = "PROD" THEN req.match_id ELSE req.sandbox_match_id

\* upload/route.ts:37-51: the status of the early return, 0 when none.
UploadRejection(req) ==
  IF req.file = "" THEN 400
  ELSE IF ScopeOf(req) = "PROD" /\ req.match_id = "" THEN 400
  ELSE IF ScopeOf(req) = "SANDBOX" /\ req.sandbox_match_id = "" THEN 400
  ELSE IF req.type # "application/pdf" THEN 415
  ELSE 0

\* upload/route.ts:25-57
UploadStart(p, req) ==
  /\ CanStart(p)
  /\ ops' = ops + 1
  /\ LET r == [Idle EXCEPT !.op = "upload", !.req = Some(req)]
     IN IF UploadRejection(req) # 0
          THEN run' = [run EXCEPT ![p] = [r EXCEPT !.pc = "done",
                                             !.response = [http |-> UploadRejection(req), stage |-> ""]]]
          ELSE run' = [run EXCEPT ![p] = [r EXCEPT !.pc = "upload_storage",
                                             !.matchKey = MatchKeyOf(ScopeOf(req), ScopeIdOf(req)),
                                             !.file = req.file]]
  /\ UNCHANGED <<storage, documents, event_tables, match_player_stats, sync_runs, lastIngest, matches, sync_state,
                 lastSync, sync_pending_links>>

\* upload/route.ts:59-66  storage.upload(storage_path, file, { upsert: true })
UploadStorage(p) ==
  /\ run[p].pc = "upload_storage"
  /\ \E o \in WriteOutcomes :
       LET req == Get(run[p].req)
           path == StoragePathOf(ScopeOf(req), ScopeIdOf(req))
       IN /\ storage' = IF Applied(o) THEN [storage EXCEPT ![path] = req.file] ELSE storage
          /\ run' = [run EXCEPT ![p] =
                       IF Errored(o) THEN [Return(p, 500, "") EXCEPT !.storeError = TRUE, !.fault = TRUE]
                                     ELSE [run[p] EXCEPT !.pc = "upload_upsert"]]
  /\ UNCHANGED <<documents, event_tables, match_player_stats, sync_runs, ops, lastIngest, matches, sync_state,
                 lastSync, sync_pending_links>>

\* A variant of the payload that stores both ids as the form sent them.
UploadPayloadAsSent(req) ==
  [scope |-> ScopeOf(req),
   match_id |-> req.match_id,
   sandbox_match_id |-> req.sandbox_match_id,
   match_key |-> MatchKeyOf(ScopeOf(req), ScopeIdOf(req)),
   storage_path |-> StoragePathOf(ScopeOf(req), ScopeIdOf(req)),
   sha256 |-> Sha256OfFile(req.file)]

\* upload/route.ts:69-81  the payload; the columns it does not name (status,
\* raw_text, canonical_json, parse_error) keep their value on conflict and
\* take the column defaults (status 'UPLOADED') on insert.
UploadPayload(req) ==
  [scope |-> ScopeOf(req),
   match_id |-> IF ScopeOf(req) = "PROD" THEN req.match_id ELSE "",
   sandbox_match_id |-> IF ScopeOf(req) = "SANDBOX" THEN req.sandbox_match_id ELSE "",
   match_key |-> MatchKeyOf(ScopeOf(req), ScopeIdOf(req)),
   storage_path |-> StoragePathOf(ScopeOf(req), ScopeIdOf(req)),
   sha256 |-> Sha256OfFile(req.file)]

\* The row a first upload inserts: the payload and the column defaults.
NewDocument(req) ==
  UploadPayload(req) @@ [id |-> NewDocumentId(MatchKeyOf(ScopeOf(req), ScopeIdOf(req))),
                         status |-> "UPLOADED", raw_text |-> None, canonical_json |-> None,
                         parse_error |-> ""]

UpsertDocument(req) ==
  LET matchKey == MatchKeyOf(ScopeOf(req), ScopeIdOf(req))
  IN IF DocumentsWithKey(matchKey) = {}
       THEN documents \cup {NewDocument(req)}
       ELSE {IF d.match_key = matchKey THEN UploadPayload(req) @@ d ELSE d : d \in documents}

\* upload/route.ts:83-101  documents.upsert(payload, onConflict source,doc_type,match_key)
UploadUpsert(p) ==
  /\ run[p].pc = "upload_upsert"
  /\ \E o \in WriteOutcomes :
       /\ documents' = IF Applied(o) THEN UpsertDocument(Get(run[p].req)) ELSE documents
       /\ run' = [run EXCEPT ![p] =
                    IF Errored(o) THEN [Return(p, 500, "") EXCEPT !.storeError = TRUE, !.fault = TRUE]
                                  ELSE Return(p, 200, "")]
  /\ UNCHANGED <<storage, event_tables, match_player_stats, sync_runs, ops, lastIngest, matches, sync_state,
                 lastSync, sync_pending_links>>

\* =================================================================== parse
\* documentId of a request body: "" is a missing or malformed id.
DocumentIdInputs == {NewDocumentId(k) : k \in MatchKeys} \cup {UnknownDocumentId, ""}

\* cron/matches/route.ts:137-153 (sumula parse)
ParseStart(p, documentId) ==
  /\ CanStart(p)
  /\ ops' = ops + 1
  /\ LET r == [Idle EXCEPT !.op = "parse", !.documentId = documentId]
     IN run' = [run EXCEPT ![p] =
                  IF documentId = ""
                    THEN [r EXCEPT !.pc = "done", !.response = [http |-> 400, stage |-> "REQUEST"]]
                    ELSE [r EXCEPT !.pc = "parse_load"]]
  /\ UNCHANGED <<storage, documents, event_tables, match_player_stats, sync_runs, lastIngest, matches, sync_state,
                 lastSync, sync_pending_links>>

\* A variant of ParseLoad that turns away a document that was already parsed.
ParseLoadFreshOnly(p) ==
  /\ run[p].pc = "parse_load"
  /\ \E o \in ReadOutcomes :
       LET found == DocumentsWithId(run[p].documentId)
       IN run' = [run EXCEPT ![p] =
                    IF Errored(o) \/ found = {}
                      THEN [Return(p, 404, "LOAD_DOCUMENT") EXCEPT !.storeError = Errored(o),
                                                                   !.fault = Errored(o)]
                    ELSE IF TheDocument(run[p].documentId).status \notin {"UPLOADED", "ERROR"}
                      THEN Return(p, 409, "LOAD_DOCUMENT")
                      ELSE [run[p] EXCEPT !.pc = "parse_download",
                                          !.matchKey = TheDocument(run[p].documentId).match_key,
                                          !.statusAtStart = TheDocument(run[p].documentId).status]]
  /\ UNCHANGED <<storage, documents, event_tables, match_player_stats, sync_runs, ops, lastIngest, matches, sync_state,
                 lastSync, sync_pending_links>>

\* cron/matches/route.ts:156-176  select id,storage_bucket,storage_path .single()
ParseLoad(p) ==
  /\ run[p].pc = "parse_load"
  /\ \E o \in ReadOutcomes :
       LET found == DocumentsWithId(run[p].documentId)
       IN run' = [run EXCEPT ![p] =
                    IF Errored(o) \/ found = {}
                      THEN [Return(p, 404, "LOAD_DOCUMENT") EXCEPT !.storeError = Errored(o),
                                                                   !.fault = Errored(o)]
                      ELSE [run[p] EXCEPT !.pc = "parse_download",
                                          !.matchKey = TheDocument(run[p].documentId).match_key,
                                          !.statusAtStart = TheDocument(run[p].documentId).status]]
  /\ UNCHANGED <<storage, documents, event_tables, match_player_stats, sync_runs, ops, lastIngest, matches, sync_state,
                 lastSync, sync_pending_links>>

\* cron/matches/route.ts:178-199  storage.download, then extractPdfRawText
\* (which throws into the catch block on empty text).
ParseDownload(p) ==
  /\ run[p].pc = "parse_download"
  /\ \E o \in ReadOutcomes :
       LET file == storage[TheDocument(run[p].documentId).storage_path]
           extracted == extractPdfRawText(file)
       IN run' = [run EXCEPT ![p] =
                    IF Errored(o) \/ file = ""
                      THEN [Return(p, 422, "DOWNLOAD_PDF") EXCEPT !.storeError = Errored(o),
                                                                  !.fault = Errored(o)]
                    ELSE IF extracted.threw
                      THEN [run[p] EXCEPT !.pc = "parse_catch",
                                          !.message = "PDF text extraction returned empty content."]
                    ELSE [run[p] EXCEPT !.pc = "parse_save_raw", !.rawText = extracted.text]]
  /\ UNCHANGED <<storage, documents, event_tables, match_player_stats, sync_runs, ops, lastIngest, matches, sync_state,
                 lastSync, sync_pending_links>>

\* cron/matches/route.ts:201-225  update raw_text, status PARSED_RAW
ParseSaveRaw(p) ==
  /\ run[p].pc = "parse_save_raw"
  /\ \E o \in WriteOutcomes :
       LET Patch(d) == [d EXCEPT !.raw_text = Some(run[p].rawText),
                                 !.status = "PARSED_RAW", !.parse_error = ""]
       IN /\ documents' = IF Applied(o) THEN UpdateDocument(run[p].documentId, Patch)
                                        ELSE documents
          /\ run' = [run EXCEPT ![p] =
                       IF Errored(o) THEN [Return(p, 500, "SAVE_RAW") EXCEPT !.storeError = TRUE,
                                                                             !.fault = TRUE]
                                     ELSE [run[p] EXCEPT !.pc = "parse_save_canonical"]]
  /\ UNCHANGED <<storage, event_tables, match_player_stats, sync_runs, ops, lastIngest, matches, sync_state,
                 lastSync, sync_pending_links>>

\* cron/matches/route.ts:227-271  parseToCanonical, update canonical_json,
\* status CANONICAL
ParseSaveCanonical(p) ==
  /\ run[p].pc = "parse_save_canonical"
  /\ \E o \in WriteOutcomes :
       LET Patch(d) == [d EXCEPT !.canonical_json = Some(parseToCanonical(run[p].rawText)),
                                 !.status = "CANONICAL", !.parse_error = ""]
       IN /\ documents' = IF Applied(o) THEN UpdateDocument(run[p].documentId, Patch)
                                        ELSE documents
          /\ run' = [run EXCEPT ![p] =
                       IF Errored(o) THEN [Return(p, 500, "SAVE_CANONICAL") EXCEPT !.storeError = TRUE,
                                                                                   !.fault = TRUE]
                                     ELSE Return(p, 200, "")]
  /\ UNCHANGED <<storage, event_tables, match_player_stats, sync_runs, ops, lastIngest, matches, sync_state,
                 lastSync, sync_pending_links>>

\* cron/matches/route.ts:272-293  catch: update status ERROR, parse_error;
\* the result of the update is not looked at.
ParseCatch(p) ==
  /\ run[p].pc = "parse_catch"
  /\ \E o \in WriteOutcomes :
       LET Patch(d) == [d EXCEPT !.status = "ERROR", !.parse_error = run[p].message]
       IN /\ documents' = IF Applied(o) THEN UpdateDocument(run[p].documentId, Patch)
                                        ELSE documents
          /\ run' = [run EXCEPT ![p] = [Return(p, 500, "PARSE_RAW") EXCEPT
                                           !.storeError = Errored(o), !.fault = Errored(o)]]
  /\ UNCHANGED <<storage, event_tables, match_player_stats, sync_runs, ops, lastIngest, matches, sync_state,
                 lastSync, sync_pending_links>>

\* ================================================================== ledger
\* summary_json of a ledger entry: its source and, for an ingest, the
\* counts of inserted rows per table (<<>>: none recorded; Summary("", <<>>)
\* is a null summary).
Summary(source, inserted) == [source |-> source, inserted |-> inserted]

\* sync_runs.insert({ status: "RUNNING" }): the new row's id is its index.
InsertRun == Append(sync_runs, [status |-> "RUNNING", finished_at |-> FALSE,
                                summary_json |-> Summary("", <<>>), error_text |-> ""])

\* sync_runs.update({ status: "DONE", finished_at, summary_json, error_text: null })
FinishRunDone(runId, source) ==
  [sync_runs EXCEPT ![runId] = [status |-> "DONE", finished_at |-> TRUE,
                                summary_json |-> Summary(source, <<>>), error_text |-> ""]]

\* ingest/route.ts:444-463  the summary of an ingest: <table>_inserted is
\* the length of the array of rows built for the table.
FinishIngestDone(runId, rows) ==
  [sync_runs EXCEPT ![runId] =
     [status |-> "DONE", finished_at |-> TRUE,
      summary_json |-> Summary("SUMULA_INGEST", [t \in DOMAIN rows |-> Len(rows[t])]),
      error_text |-> ""]]

\* sync_runs.update({ status: "ERROR", finished_at, error_text })
FinishRunError(runId, message) ==
  [sync_runs EXCEPT ![runId] = [@ EXCEPT !.status = "ERROR", !.finished_at = TRUE,
                                         !.error_text = message]]

\* The request throws: control moves to its catch block.
Throw(r, stage, message, catchPc) ==
  [r EXCEPT !.pc = catchPc, !.failedAt = stage, !.message = message]

\* ================================================================== ingest
\* The (table, match_key, event_uid) triples stored for a match_key.
EventPairs(tables, matchKey) ==
  UNION {{<<t, row.match_key, row.event_uid>> :
            row \in {stored \in tables[t] : stored.match_key = matchKey}} : t \in EventTables}

\* History of the ingest run r that returns: whether it answered 200, the
\* report it read, the events it leaves, and whether the run before it had
\* answered 200 on the same report of the same document.
IngestOutcome(r, ok, tables) ==
  [ok |-> ok, documentId |-> r.documentId, canonical |-> r.canonical,
   pairs |-> EventPairs(tables, r.matchKey),
   repeated |-> /\ ok /\ lastIngest.ok /\ lastIngest.documentId = r.documentId
                /\ lastIngest.canonical = r.canonical]

\* ingest/route.ts:290-305
IngestStart(p, documentId) ==
  /\ CanStart(p)
  /\ ops' = ops + 1
  /\ LET r == [Idle EXCEPT !.op = "ingest", !.documentId = documentId,
                           !.rowsAtStart = event_tables]
     IN run' = [run EXCEPT ![p] =
                  IF documentId = ""
                    THEN [r EXCEPT !.pc = "done", !.response = [http |-> 400, stage |-> "REQUEST"]]
                    ELSE [r EXCEPT !.pc = "ingest_create_run", !.stage = "SYNC_RUN"]]
  /\ UNCHANGED <<storage, documents, event_tables, match_player_stats, sync_runs, lastIngest, matches, sync_state,
                 lastSync, sync_pending_links>>

\* ingest/route.ts:305-325  sync_runs.insert(RUNNING).select("id").single()
IngestCreateRun(p) ==
  /\ run[p].pc = "ingest_create_run"
  /\ \E o \in WriteOutcomes :
       /\ sync_runs' = IF Applied(o) THEN InsertRun ELSE sync_runs
       /\ run' = [run EXCEPT ![p] =
                    IF Errored(o)
                      THEN [Return(p, 500, "SYNC_RUN") EXCEPT !.storeError = TRUE, !.fault = TRUE]
                      ELSE [run[p] EXCEPT !.pc = "ingest_load", !.runId = Len(sync_runs) + 1,
                                          !.stage = "LOAD_DOCUMENT"]]
       /\ lastIngest' = IF Errored(o) THEN IngestOutcome(run[p], FALSE, event_tables)
                                      ELSE lastIngest
  /\ UNCHANGED <<storage, documents, event_tables, match_player_stats, ops, matches, sync_state,
                 lastSync, sync_pending_links>>

\* ingest/route.ts:327-344  load the document, parseCanonical
IngestLoad(p) ==
  /\ run[p].pc = "ingest_load"
  /\ \E o \in ReadOutcomes :
       LET found == DocumentsWithId(run[p].documentId)
           document == TheDocument(run[p].documentId)
           r == NoteError(run[p], o)
       IN run' = [run EXCEPT ![p] =
                    IF Errored(o) \/ found = {}
                      THEN Throw(r, "LOAD_DOCUMENT", "Document not found.", "ingest_catch_document")
                    ELSE IF ~IsSome(parseCanonical(document.canonical_json))
                      THEN Throw([r EXCEPT !.statusAtStart = document.status], "LOAD_DOCUMENT",
                                 "documents.canonical_json is missing or invalid.",
                                 "ingest_catch_document")
                    ELSE [r EXCEPT !.pc = "ingest_delete", !.stage = "DELETE_EXISTING",
                                   !.statusAtStart = document.status,
                                   !.canonical = parseCanonical(document.canonical_json),
                                   !.matchKey = document.match_key,
                                   !.matchId = document.match_id]]
  /\ UNCHANGED <<storage, documents, event_tables, match_player_stats, sync_runs, ops, lastIngest, matches, sync_state,
                 lastSync, sync_pending_links>>

RowsWithKey(rows, matchKey) == {row \in rows : row.match_key = matchKey}

\* A variant of DeleteByMatchKey that deletes nothing.
DeleteNothing(rows, matchKey) == rows

\* A variant of DeleteByMatchKey that deletes every row.
DeleteEverything(rows, matchKey) == {}

\* <table>.delete().eq("match_key", matchKey)
DeleteByMatchKey(rows, matchKey) == rows \ RowsWithKey(rows, matchKey)

\* ingest/route.ts:346-400  the four deletes (Promise.all), then the rows
\* to insert are computed.
IngestDelete(p) ==
  /\ run[p].pc = "ingest_delete"
  /\ \E os \in [EventTables -> WriteOutcomes] :
       LET r == [run[p] EXCEPT !.storeError = @ \/ \E t \in EventTables : Errored(os[t]),
                                !.fault = @ \/ \E t \in EventTables : Errored(os[t])]
           parsedEvents == parseCanonicalEvents(Get(r.canonical).events, r.documentId,
                                                r.matchId, r.matchKey)
           lineupRows == LineupRowsOf(r.documentId, r.matchId, r.matchKey, Get(r.canonical))
       IN /\ event_tables' = [t \in EventTables |->
                                IF Applied(os[t]) THEN DeleteByMatchKey(event_tables[t], r.matchKey)
                                                  ELSE event_tables[t]]
          /\ run' = [run EXCEPT ![p] =
                       IF \E t \in EventTables : Errored(os[t])
                         THEN Throw(r, "DELETE_EXISTING",
                                    "Could not delete previous events for match_key",
                                    "ingest_catch_document")
                         ELSE [r EXCEPT !.pc = "ingest_insert", !.stage = "INSERT_EVENTS",
                                        !.rows = [match_lineups |-> lineupRows,
                                                  match_goals |-> parsedEvents.goals,
                                                  match_cards |-> parsedEvents.cards,
                                                  match_substitutions |-> parsedEvents.substitutions],
                                        !.file = "match_lineups"]]
  /\ UNCHANGED <<storage, documents, match_player_stats, sync_runs, ops, lastIngest, matches, sync_state,
                 lastSync, sync_pending_links>>

\* A variant of ViolatesUnique that lets two rows of one insert agree (the
\* second is dropped when the rows are stored).
ViolatesStored(stored, rows) ==
  \E i \in 1..Len(rows) : \E old \in stored :
    old.match_key = rows[i].match_key /\ old.event_uid = rows[i].event_uid

\* The unique index (match_key, event_uid) of an event table rejects the
\* whole insert when two of its rows, or one of them and a stored row, agree
\* on (match_key, event_uid).
ViolatesUnique(stored, rows) ==
  \/ \E i, j \in 1..Len(rows) :
       i # j /\ rows[i].match_key = rows[j].match_key /\ rows[i].event_uid = rows[j].event_uid
  \/ \E i \in 1..Len(rows) : \E old \in stored :
       old.match_key = rows[i].match_key /\ old.event_uid = rows[i].event_uid

InsertOrder == <<"match_lineups", "match_goals", "match_cards", "match_substitutions">>
InsertMessage(table) ==
  CASE table = "match_lineups" -> "Could not insert lineup events"
    [] table = "match_goals" -> "Could not insert goal events"
    [] table = "match_cards" -> "Could not insert card events"
    [] OTHER -> "Could not insert substitution events"
NextTable(table) ==
  CASE table = "match_lineups" -> "match_goals"
    [] table = "match_goals" -> "match_cards"
    [] table = "match_cards" -> "match_substitutions"
    [] OTHER -> ""

\* ingest/route.ts:402-429  one of the four inserts (skipped when there are
\* no rows for the table); run[p].file names the table that is next.
IngestInsert(p) ==
  /\ run[p].pc = "ingest_insert"
  /\ LET table == run[p].file
         rows == run[p].rows[table]
         Advance(r) == IF NextTable(table) = ""
                         THEN [r EXCEPT !.pc = "ingest_save_document", !.stage = "SAVE_DOCUMENT",
                                        !.file = ""]
                         ELSE [r EXCEPT !.file = NextTable(table)]
     IN IF Len(rows) = 0
          THEN /\ run' = [run EXCEPT ![p] = Advance(run[p])]
               /\ UNCHANGED event_tables
          ELSE \E o \in WriteOutcomes :
                 LET rejected == ViolatesUnique(event_tables[table], rows)
                     failed == Errored(o) \/ rejected
                     r == [run[p] EXCEPT !.storeError = @ \/ failed, !.fault = @ \/ Errored(o)]
                 IN /\ event_tables' =
                         IF Applied(o) /\ ~rejected
                           THEN [event_tables EXCEPT ![table] = @ \cup Range(rows)]
                           ELSE event_tables
                    /\ run' = [run EXCEPT ![p] =
                                 IF failed
                                   THEN Throw(r, "INSERT_EVENTS", InsertMessage(table),
                                              "ingest_catch_document")
                                   ELSE Advance(r)]
  /\ UNCHANGED <<storage, documents, match_player_stats, sync_runs, ops, lastIngest, matches, sync_state,
                 lastSync, sync_pending_links>>

\* ingest/route.ts:431-442  update status EVENTS_SAVED, parse_error null
IngestSaveDocument(p) ==
  /\ run[p].pc = "ingest_save_document"
  /\ \E o \in WriteOutcomes :
       LET Patch(d) == [d EXCEPT !.status = "EVENTS_SAVED", !.parse_error = ""]
           r == NoteError(run[p], o)
       IN /\ documents' = IF Applied(o) THEN UpdateDocument(r.documentId, Patch) ELSE documents
          /\ run' = [run EXCEPT ![p] =
                       IF Errored(o)
                         THEN Throw(r, "SAVE_DOCUMENT", "Could not update document status",
                                    "ingest_catch_document")
                         ELSE [r EXCEPT !.pc = "ingest_finalize"]]
  /\ UNCHANGED <<storage, event_tables, match_player_stats, sync_runs, ops, lastIngest, matches, sync_state,
                 lastSync, sync_pending_links>>

\* ingest/route.ts:454-485  sync_runs.update(DONE).eq("id", runId).select().single()
IngestFinalize(p) ==
  /\ run[p].pc = "ingest_finalize"
  /\ \E o \in WriteOutcomes :
       LET r == NoteError(run[p], o)
       IN /\ sync_runs' = IF Applied(o) THEN FinishIngestDone(r.runId, r.rows) ELSE sync_runs
          /\ run' = [run EXCEPT ![p] =
                       IF Errored(o)
                         THEN Throw(r, "SAVE_DOCUMENT", "Could not finalize sync run.",
                                    "ingest_catch_document")
                         ELSE Return(p, 200, "")]
          /\ lastIngest' = IF Errored(o) THEN lastIngest
                                         ELSE IngestOutcome(r, TRUE, event_tables)
  /\ UNCHANGED <<storage, documents, event_tables, match_player_stats, ops, matches, sync_state,
                 lastSync, sync_pending_links>>

\* A variant of IngestCatchDocument whose update also resets canonical_json.
IngestCatchDocumentResetting(p) ==
  /\ run[p].pc = "ingest_catch_document"
  /\ \E o \in WriteOutcomes :
       LET Patch(d) == [d EXCEPT !.status = "ERROR", !.parse_error = run[p].message,
                                 !.canonical_json = None]
       IN /\ documents' = IF Applied(o) THEN UpdateDocument(run[p].documentId, Patch)
                                        ELSE documents
          /\ run' = [run EXCEPT ![p].pc = "ingest_catch_run"]
  /\ UNCHANGED <<storage, event_tables, match_player_stats, sync_runs, ops, lastIngest, matches, sync_state,
                 lastSync, sync_pending_links>>

\* ingest/route.ts:486-498  catch: update the document to ERROR; the result
\* of the update is not looked at.  (documentId is a valid uuid here: an
\* invalid one returned before the try body could throw.)
IngestCatchDocument(p) ==
  /\ run[p].pc = "ingest_catch_document"
  /\ \E o \in WriteOutcomes :
       LET Patch(d) == [d EXCEPT !.status = "ERROR", !.parse_error = run[p].message]
       IN /\ documents' = IF Applied(o) THEN UpdateDocument(run[p].documentId, Patch)
                                        ELSE documents
          /\ run' = [run EXCEPT ![p].pc = "ingest_catch_run"]
  /\ UNCHANGED <<storage, event_tables, match_player_stats, sync_runs, ops, lastIngest, matches, sync_state,
                 lastSync, sync_pending_links>>

\* ingest/route.ts:500-522  catch: update the ledger entry to ERROR (result
\* not looked at), answer 500 with stage SYNC_RUN.  runId is set: the only
\* exit before it is set is a return.
IngestCatchRun(p) ==
  /\ run[p].pc = "ingest_catch_run"
  /\ \E o \in WriteOutcomes :
       /\ sync_runs' = IF Applied(o) THEN FinishRunError(run[p].runId, run[p].message)
                                     ELSE sync_runs
       /\ run' = [run EXCEPT ![p] = Return(p, 500, "SYNC_RUN")]
       /\ lastIngest' = IngestOutcome(run[p], FALSE, event_tables)
  /\ UNCHANGED <<storage, documents, event_tables, match_player_stats, ops, matches, sync_state,
                 lastSync, sync_pending_links>>

\* =========================================================== stats rebuild
\* The request body: match_key and documentId after trim(); "" is a missing
\* field, "bad" a value of the wrong format.
StatsBodies ==
  [match_key : {"", "bad"} \cup MatchKeys,
   documentId : {"", "bad"} \cup {NewDocumentId(k) : k \in MatchKeys} \cup {UnknownDocumentId}]

\* part_013:31 and the uuid test of the route (ids of the model stand for uuids).
isMatchKey(value) == value \in MatchKeys
isUuid(value) == value \notin {"", "bad"}

\* part_013:45-70  the three early returns, then stage SYNC_RUN.
StatsStart(p, body) ==
  /\ CanStart(p)
  /\ ops' = ops + 1
  /\ LET r == [Idle EXCEPT !.op = "stats", !.documentId = body.documentId,
                           !.statsAtStart = match_player_stats]
         invalid == \/ body.match_key = "" /\ body.documentId = ""
                    \/ body.documentId # "" /\ ~isUuid(body.documentId)
                    \/ body.match_key # "" /\ ~isMatchKey(body.match_key)
     IN run' = [run EXCEPT ![p] =
                  IF invalid
                    THEN [r EXCEPT !.pc = "done", !.response = [http |-> 400, stage |-> "REQUEST"]]
                    ELSE [r EXCEPT !.pc = "stats_create_run", !.stage = "SYNC_RUN",
                                   !.req = Some(body)]]
  /\ UNCHANGED <<storage, documents, event_tables, match_player_stats, sync_runs, lastIngest, matches, sync_state,
                 lastSync, sync_pending_links>>

\* part_013:71-81  sync_runs.insert(RUNNING); an error is thrown to the
\* catch block while runId is still null.
StatsCreateRun(p) ==
  /\ run[p].pc = "stats_create_run"
  /\ \E o \in WriteOutcomes :
       LET r == NoteError(run[p], o)
       IN /\ sync_runs' = IF Applied(o) THEN InsertRun ELSE sync_runs
          /\ run' = [run EXCEPT ![p] =
                       IF Errored(o)
                         THEN Throw(r, "SYNC_RUN", "Could not create sync run.", "stats_catch")
                         ELSE [r EXCEPT !.pc = "stats_load", !.runId = Len(sync_runs) + 1,
                                        !.stage = "LOAD_DOCUMENT"]]
  /\ UNCHANGED <<storage, documents, event_tables, match_player_stats, ops, lastIngest, matches, sync_state,
                 lastSync, sync_pending_links>>

\* part_013:83-112  the document by id, or else the one of the match_key.
StatsLoad(p) ==
  /\ run[p].pc = "stats_load"
  /\ \E o \in ReadOutcomes :
       LET body == Get(run[p].req)
           found == IF body.documentId # "" THEN DocumentsWithId(body.documentId)
                                            ELSE DocumentsWithKey(body.match_key)
           document == CHOOSE d \in found : TRUE
           r == NoteError(run[p], o)
       IN run' = [run EXCEPT ![p] =
                    IF Errored(o) \/ found = {}
                      THEN Throw(r, "LOAD_DOCUMENT",
                                 IF body.documentId # "" THEN "Document not found."
                                                         ELSE "No document found for match_key.",
                                 "stats_catch")
                      ELSE [r EXCEPT !.pc = "stats_read_existing", !.stage = "REBUILD",
                                     !.documentId = document.id,
                                     !.matchKey = document.match_key,
                                     !.matchId = document.match_id]]
  /\ UNCHANGED <<storage, documents, event_tables, match_player_stats, sync_runs, ops, lastIngest, matches, sync_state,
                 lastSync, sync_pending_links>>

\* rebuildPlayerStats.ts:172-181  select id where match_key
StatsReadExisting(p) ==
  /\ run[p].pc = "stats_read_existing"
  /\ \E o \in ReadOutcomes :
       LET r == NoteError(run[p], o)
       IN run' = [run EXCEPT ![p] =
                    IF Errored(o)
                      THEN Throw(r, "REBUILD", "Could not read existing stats", "stats_catch")
                      ELSE [r EXCEPT !.pc = "stats_delete"]]
  /\ UNCHANGED <<storage, documents, event_tables, match_player_stats, sync_runs, ops, lastIngest, matches, sync_state,
                 lastSync, sync_pending_links>>

\* rebuildPlayerStats.ts:183-186  delete where match_key
StatsDelete(p) ==
  /\ run[p].pc = "stats_delete"
  /\ \E o \in WriteOutcomes :
       LET r == NoteError(run[p], o)
       IN /\ match_player_stats' =
               IF Applied(o) THEN DeleteByMatchKey(match_player_stats, r.matchKey)
                             ELSE match_player_stats
          /\ run' = [run EXCEPT ![p] =
                       IF Errored(o)
                         THEN Throw(r, "REBUILD", "Could not delete existing stats", "stats_catch")
                         ELSE [r EXCEPT !.pc = "stats_read_events"]]
  /\ UNCHANGED <<storage, documents, event_tables, sync_runs, ops, lastIngest, matches, sync_state,
                 lastSync, sync_pending_links>>

\* The orders in which the store can return the rows of a set.
Orderings(rows) ==
  {order \in [1..Cardinality(rows) -> rows] :
     \A i, j \in 1..Cardinality(rows) : order[i] = order[j] => i = j}

\* rebuildPlayerStats.ts:188-336  the four selects (Promise.all), then the
\* rows to insert are computed from what they returned.
StatsReadEvents(p) ==
  /\ run[p].pc = "stats_read_events"
  /\ \E o \in ReadOutcomes :
       LET r == NoteError(run[p], o)
           input == [match_key |-> r.matchKey, document_id |-> r.documentId,
                     match_id |-> r.matchId]
       IN \E lineups \in Orderings(RowsWithKey(match_lineups, r.matchKey)),
             goals \in Orderings(RowsWithKey(match_goals, r.matchKey)),
             cards \in Orderings(RowsWithKey(match_cards, r.matchKey)),
             substitutions \in Orderings(RowsWithKey(match_substitutions, r.matchKey)) :
            run' = [run EXCEPT ![p] =
                      IF Errored(o)
                        THEN Throw(r, "REBUILD", "Could not load events.", "stats_catch")
                        ELSE [r EXCEPT !.pc = "stats_insert",
                                       !.rows = StatsRowsOf(lineups, goals, cards,
                                                            substitutions, input)]]
  /\ UNCHANGED <<storage, documents, event_tables, match_player_stats, sync_runs, ops, lastIngest, matches, sync_state,
                 lastSync, sync_pending_links>>

\* rebuildPlayerStats.ts:338-343  insert(rows), skipped when there are none;
\* the unique index (match_key, event_uid) of match_player_stats applies.
StatsInsert(p) ==
  /\ run[p].pc = "stats_insert"
  /\ IF Len(run[p].rows) = 0
       THEN /\ run' = [run EXCEPT ![p].pc = "stats_finalize", ![p].stage = "SYNC_RUN"]
            /\ UNCHANGED match_player_stats
       ELSE \E o \in WriteOutcomes :
              LET rejected == ViolatesUnique(match_player_stats, run[p].rows)
                  failed == Errored(o) \/ rejected
                  r == [run[p] EXCEPT !.storeError = @ \/ failed, !.fault = @ \/ Errored(o)]
              IN /\ match_player_stats' =
                      IF Applied(o) /\ ~rejected
                        THEN match_player_stats \cup Range(r.rows)
                        ELSE match_player_stats
                 /\ run' = [run EXCEPT ![p] =
                              IF failed
                                THEN Throw(r, "REBUILD", "Could not insert rebuilt stats",
                                           "stats_catch")
                                ELSE [r EXCEPT !.pc = "stats_finalize", !.stage = "SYNC_RUN"]]
  /\ UNCHANGED <<storage, documents, event_tables, sync_runs, ops, lastIngest, matches, sync_state,
                 lastSync, sync_pending_links>>

\* part_013:119-146  sync_runs.update(DONE).select().single()
StatsFinalize(p) ==
  /\ run[p].pc = "stats_finalize"
  /\ \E o \in WriteOutcomes :
       LET r == NoteError(run[p], o)
       IN /\ sync_runs' = IF Applied(o) THEN FinishRunDone(r.runId, "SUMULA_STATS_REBUILD")
                                        ELSE sync_runs
          /\ run' = [run EXCEPT ![p] =
                       IF Errored(o)
                         THEN Throw(r, "SYNC_RUN", "Could not finalize sync run.", "stats_catch")
                         ELSE Return(p, 200, "REBUILD")]
  /\ UNCHANGED <<storage, documents, event_tables, match_player_stats, ops, lastIngest, matches, sync_state,
                 lastSync, sync_pending_links>>

\* part_013:147-172  catch: when runId is set, update the ledger entry to
\* ERROR (result not looked at); answer 500 with the stage reached.
StatsCatch(p) ==
  /\ run[p].pc = "stats_catch"
  /\ IF run[p].runId = 0
       THEN /\ run' = [run EXCEPT ![p] = Return(p, 500, run[p].failedAt)]
            /\ UNCHANGED sync_runs
       ELSE \E o \in WriteOutcomes :
              /\ sync_runs' = IF Applied(o) THEN FinishRunError(run[p].runId, run[p].message)
                                            ELSE sync_runs
              /\ run' = [run EXCEPT ![p] = Return(p, 500, run[p].failedAt)]
  /\ UNCHANGED <<storage, documents, event_tables, match_player_stats, ops, lastIngest, matches, sync_state,
                 lastSync, sync_pending_links>>

\* ============================================================ fixture sync
HasUrlBase(competition) == competition.url_base # ""

\* After a competition is done: the next one, or the end of the loop.
NextCompetition(r, queue) ==
  [r EXCEPT !.queue = queue, !.rows = <<>>, !.stateHash = <<>>,
            !.pc = IF Len(queue) = 0 THEN "sync_finalize" ELSE "sync_fetch"]

\* part_002:555-562  runMatchesSync is called (cron/matches/route.ts:17).
SyncStart(p) ==
  /\ CanStart(p)
  /\ ops' = ops + 1
  /\ run' = [run EXCEPT ![p] = [Idle EXCEPT !.op = "sync", !.pc = "sync_create_run"]]
  /\ UNCHANGED <<storage, documents, event_tables, match_player_stats, sync_runs, lastIngest,
                 matches, sync_state, lastSync, sync_pending_links>>

\* part_002:564-574  sync_runs.insert(RUNNING); an error is thrown to the
\* catch block while runId is still null.
SyncCreateRun(p) ==
  /\ run[p].pc = "sync_create_run"
  /\ \E o \in WriteOutcomes :
       LET r == NoteError(run[p], o)
       IN /\ sync_runs' = IF Applied(o) THEN InsertRun ELSE sync_runs
          /\ run' = [run EXCEPT ![p] =
                       IF Errored(o)
                         THEN Throw(r, "SYNC_RUN", "Could not create sync run.", "sync_catch")
                         ELSE [r EXCEPT !.pc = "sync_read_competitions",
                                        !.runId = Len(sync_runs) + 1]]
  /\ UNCHANGED <<storage, documents, event_tables, match_player_stats, ops, lastIngest,
                 matches, sync_state, lastSync, sync_pending_links>>

\* part_002:576-603  select the active competitions; those without url_base
\* are skipped by the loop.
SyncReadCompetitions(p) ==
  /\ run[p].pc = "sync_read_competitions"
  /\ \E o \in ReadOutcomes :
       LET r == NoteError(run[p], o)
       IN run' = [run EXCEPT ![p] =
                    IF Errored(o)
                      THEN Throw(r, "", "competitions_registry", "sync_catch")
                      ELSE NextCompetition(r, SelectSeq(competitions_registry, HasUrlBase))]
  /\ UNCHANGED <<storage, documents, event_tables, match_player_stats, sync_runs, ops,
                 lastIngest, matches, sync_state, lastSync, sync_pending_links>>

\* The results of the detail fetches of a page: one per record, NoDetails
\* for a record without details_url (details: null).
DetailsFor(page) ==
  {details \in [1..Len(page) -> DetailsResults] :
     \A i \in 1..Len(page) : page[i].details_url = "" => details[i] = NoDetails}

\* part_002:605-720  fetchCompetitionMatchesWithDebug (throws on a transport
\* failure), the detail fetches, importRows and stateHash.
SyncFetch(p) ==
  /\ run[p].pc = "sync_fetch"
  /\ \/ run' = [run EXCEPT ![p] = Throw(run[p], "", "FPF request failed", "sync_catch")]
     \/ \E page \in SourcePages : \E details \in DetailsFor(page) :
          LET competition == Head(run[p].queue)
              importRows == Flatten([i \in 1..Len(page) |->
                                       ImportRowsOf(competition, page[i], details[i])])
          IN run' = [run EXCEPT ![p] = [run[p] EXCEPT !.pc = "sync_read_state",
                                                     !.rows = importRows,
                                                     !.stateHash = stateHashOf(importRows),
                                                     !.fetched = Append(@, <<competition.id, page,
                                                                            details>>)]]
  /\ UNCHANGED <<storage, documents, event_tables, match_player_stats, sync_runs, ops,
                 lastIngest, matches, sync_state, lastSync, sync_pending_links>>

\* part_002:734  currentState?.last_hash === stateHash
HashAlwaysChanged(currentState, stateHash) == FALSE
HashUnchanged(currentState, stateHash) ==
  IsSome(currentState) /\ Get(currentState).last_hash = stateHash

\* part_002:722-730  select sync_state of the competition .maybeSingle()
SyncReadState(p) ==
  /\ run[p].pc = "sync_read_state"
  /\ \E o \in ReadOutcomes :
       LET r == NoteError(run[p], o)
           currentState == sync_state[Head(r.queue).id]
       IN run' = [run EXCEPT ![p] =
                    IF Errored(o) THEN Throw(r, "", "sync_state", "sync_catch")
                    ELSE IF HashUnchanged(currentState, r.stateHash)
                      THEN [r EXCEPT !.pc = "sync_touch_state"]
                    ELSE IF Len(r.rows) > 0 THEN [r EXCEPT !.pc = "sync_upsert_matches"]
                    ELSE [r EXCEPT !.pc = "sync_upsert_state"]]
  /\ UNCHANGED <<storage, documents, event_tables, match_player_stats, sync_runs, ops,
                 lastIngest, matches, sync_state, lastSync, sync_pending_links>>

\* sync_state.upsert(row): the columns of the payload are written, the
\* others kept (0 when the row is new); times are the id of the run.
UpsertSyncState(competitionId, hash, now, changed) ==
  LET old == IF IsSome(sync_state[competitionId]) THEN Get(sync_state[competitionId])
             ELSE [last_hash |-> <<>>, last_checked_at |-> 0, last_changed_at |-> 0]
  IN [sync_state EXCEPT ![competitionId] =
        Some([last_hash |-> hash, last_checked_at |-> now,
              last_changed_at |-> IF changed THEN now ELSE old.last_changed_at])]

\* part_002:734-746  unchanged hash: only last_checked_at is touched.
SyncTouchState(p) ==
  /\ run[p].pc = "sync_touch_state"
  /\ \E o \in WriteOutcomes :
       LET r == NoteError(run[p], o)
       IN /\ sync_state' = IF Applied(o)
                             THEN UpsertSyncState(Head(r.queue).id, r.stateHash, r.runId, FALSE)
                             ELSE sync_state
          /\ run' = [run EXCEPT ![p] =
                       IF Errored(o) THEN Throw(r, "", "sync_state", "sync_catch")
                                     ELSE NextCompetition(r, Tail(r.queue))]
  /\ UNCHANGED <<storage, documents, event_tables, match_player_stats, sync_runs, ops,
                 lastIngest, matches, lastSync, sync_pending_links>>

\* part_002:748-758  matches.upsert(importRows, onConflict source,source_url)
SyncUpsertMatches(p) ==
  /\ run[p].pc = "sync_upsert_matches"
  /\ \E o \in WriteOutcomes :
       LET rejected == UpsertRejected(run[p].rows)
           failed == Errored(o) \/ rejected
           r == [run[p] EXCEPT !.storeError = @ \/ failed, !.fault = @ \/ Errored(o)]
       IN /\ matches' = IF Applied(o) /\ ~rejected THEN UpsertMatches(matches, r.rows)
                                                   ELSE matches
          /\ run' = [run EXCEPT ![p] =
                       IF failed THEN Throw(r, "", "matches", "sync_catch")
                                 ELSE [r EXCEPT !.pc = "sync_upsert_state"]]
  /\ UNCHANGED <<storage, documents, event_tables, match_player_stats, sync_runs, ops,
                 lastIngest, sync_state, lastSync, sync_pending_links>>

\* part_002:760-770  sync_state.upsert with the new hash and last_changed_at
SyncUpsertState(p) ==
  /\ run[p].pc = "sync_upsert_state"
  /\ \E o \in WriteOutcomes :
       LET r == NoteError(run[p], o)
       IN /\ sync_state' = IF Applied(o)
                             THEN UpsertSyncState(Head(r.queue).id, r.stateHash, r.runId, TRUE)
                             ELSE sync_state
          /\ run' = [run EXCEPT ![p] =
                       IF Errored(o) THEN Throw(r, "", "sync_state", "sync_catch")
                                     ELSE NextCompetition(r, Tail(r.queue))]
  /\ UNCHANGED <<storage, documents, event_tables, match_player_stats, sync_runs, ops,
                 lastIngest, matches, lastSync, sync_pending_links>>

\* part_002:788-808  sync_runs.update(DONE).select().single()
SyncFinalize(p) ==
  /\ run[p].pc = "sync_finalize"
  /\ \E o \in WriteOutcomes :
       LET r == NoteError(run[p], o)
       IN /\ sync_runs' = IF Applied(o) THEN FinishRunDone(r.runId, "FPF") ELSE sync_runs
          /\ run' = [run EXCEPT ![p] =
                       IF Errored(o)
                         THEN Throw(r, "", "Could not finalize sync run.", "sync_catch")
                         ELSE Return(p, 200, "")]
          /\ lastSync' = IF Errored(o) THEN lastSync
                                       ELSE [ok |-> TRUE, fetched |-> r.fetched]
  /\ UNCHANGED <<storage, documents, event_tables, match_player_stats, ops, lastIngest,
                 matches, sync_state, sync_pending_links>>

\* part_002:809-823  catch: when runId is set, update the ledger entry to
\* ERROR (result not looked at); the error is thrown on to the route, which
\* answers 500 (cron/matches/route.ts:25).
SyncCatch(p) ==
  /\ run[p].pc = "sync_catch"
  /\ IF run[p].runId = 0
       THEN /\ run' = [run EXCEPT ![p] = Return(p, 500, "")]
            /\ UNCHANGED sync_runs
       ELSE \E o \in WriteOutcomes :
              /\ sync_runs' = IF Applied(o) THEN FinishRunError(run[p].runId, run[p].message)
                                            ELSE sync_runs
              /\ run' = [run EXCEPT ![p] = Return(p, 500, "")]
  /\ lastSync' = [ok |-> FALSE, fetched |-> run[p].fetched]
  /\ UNCHANGED <<storage, documents, event_tables, match_player_stats, ops, lastIngest,
                 matches, sync_state, sync_pending_links>>

\* The uploads of the pipeline specification: well-formed requests for the
\* production match, one per file.
PipelineUploads ==
  {req \in UploadRequests : /\ req.scope = "PROD" /\ req.match_id \in MatchIds
                            /\ req.sandbox_match_id = "" /\ req.file # ""
                            /\ req.type = "application/pdf"}
PipelineDocumentIds == {NewDocumentId(MatchKeyOf("PROD", m)) : m \in MatchIds}
                         \cup {UnknownDocumentId, ""}

Next ==
  \/ \E req \in PipelineUploads : UploadStart(1, req)
  \/ UploadStorage(1)
  \/ UploadUpsert(1)
  \/ \E id \in PipelineDocumentIds : ParseStart(1, id)
  \/ ParseLoad(1)
  \/ ParseDownload(1)
  \/ ParseSaveRaw(1)
  \/ ParseSaveCanonical(1)
  \/ ParseCatch(1)
  \/ \E id \in PipelineDocumentIds : IngestStart(1, id)
  \/ IngestCreateRun(1)
  \/ IngestLoad(1)
  \/ IngestDelete(1)
  \/ IngestInsert(1)
  \/ IngestSaveDocument(1)
  \/ IngestFinalize(1)
  \/ IngestCatchDocument(1)
  \/ IngestCatchRun(1)

Spec == Init /\ [][Next]_vars

\* ------------------------------------------------------------ upload only
\* Every form the upload route can be sent, with one file.
UploadForms == {req \in UploadRequests : req.file \in {"", "pdfA"}}

NextUpload ==
  \/ \E req \in UploadForms : UploadStart(1, req)
  \/ UploadStorage(1)
  \/ UploadUpsert(1)

SpecUpload == Init /\ [][NextUpload]_vars

\* ------------------------------------------------- runs and their ledger
\* The state after pdfA was uploaded for the production match, parsed and
\* ingested without a failure.
IngestedRequest ==
  [scope |-> "PROD", match_id |-> "m1", sandbox_match_id |-> "", file |-> "pdfA",
   type |-> "application/pdf"]
IngestedCanonical == parseToCanonical(extractPdfRawText("pdfA").text)
IngestedDocument ==
  [NewDocument(IngestedRequest) EXCEPT
     !.status = "EVENTS_SAVED",
     !.raw_text = Some(extractPdfRawText("pdfA").text),
     !.canonical_json = Some(IngestedCanonical)]
IngestedTables ==
  [t \in EventTables |->
     IF t = "match_lineups"
       THEN Range(LineupRowsOf(IngestedDocument.id, IngestedDocument.match_id,
                               IngestedDocument.match_key, IngestedCanonical))
       ELSE {}]

InitRuns ==
  /\ storage = [path \in StoragePaths |->
                  IF path = IngestedDocument.storage_path THEN "pdfA" ELSE ""]
  /\ documents = {IngestedDocument}
  /\ event_tables = IngestedTables
  /\ match_player_stats = {}
  /\ sync_runs = <<[status |-> "DONE", finished_at |-> TRUE,
                    summary_json |-> Summary("SUMULA_INGEST",
                                             [t \in EventTables |-> Cardinality(event_tables[t])]),
                    error_text |-> ""]>>
  /\ run = [p \in Procs |-> Idle]
  /\ ops = 0
  /\ lastIngest = [ok |-> TRUE, documentId |-> IngestedDocument.id,
                   canonical |-> Some(IngestedCanonical),
                   pairs |-> EventPairs(IngestedTables, IngestedDocument.match_key),
                   repeated |-> FALSE]
  /\ matches = {}
  /\ sync_state = [c \in CompetitionIds |-> None]
  /\ lastSync = NoSync
  /\ sync_pending_links = PendingLinks

RunsDocumentIds == {IngestedDocument.id, ""}
RunsStatsBodies ==
  {body \in StatsBodies : /\ body.match_key \in {"", "bad", IngestedDocument.match_key}
                          /\ body.documentId \in {"", UnknownDocumentId}}

NextRuns ==
  \/ ops < MaxRuns /\ \E id \in RunsDocumentIds : IngestStart(1, id)
  \/ IngestCreateRun(1)
  \/ IngestLoad(1)
  \/ IngestDelete(1)
  \/ IngestInsert(1)
  \/ IngestSaveDocument(1)
  \/ IngestFinalize(1)
  \/ IngestCatchDocument(1)
  \/ IngestCatchRun(1)
  \/ ops < MaxRuns /\ \E body \in RunsStatsBodies : StatsStart(1, body)
  \/ StatsCreateRun(1)
  \/ StatsLoad(1)
  \/ StatsReadExisting(1)
  \/ StatsDelete(1)
  \/ StatsReadEvents(1)
  \/ StatsInsert(1)
  \/ StatsFinalize(1)
  \/ StatsCatch(1)
  \/ ops < MaxRuns /\ SyncStart(1)
  \/ SyncCreateRun(1)
  \/ SyncReadCompetitions(1)
  \/ SyncFetch(1)
  \/ SyncReadState(1)
  \/ SyncTouchState(1)
  \/ SyncUpsertMatches(1)
  \/ SyncUpsertState(1)
  \/ SyncFinalize(1)
  \/ SyncCatch(1)

SpecRuns == InitRuns /\ [][NextRuns]_vars

\* ------------------------------------------------ rebuilds over event rows
\* The events a stored canonical report can hold for the production match,
\* as JSON: goals, cards and substitutions of athletes in and out of the
\* lineups of pdfA (Ana starts, Bia is a reserve).
GoalEvent(half, minute, name, kind) ==
  [type |-> JStr("GOAL"), team_side |-> JStr("HOME"), half |-> JNum(half),
   minute |-> JNum(minute), athlete_name |-> JStr(name), kind |-> JStr(kind),
   card_type |-> JNull, reason |-> JNull, athlete_out_name |-> JNull, athlete_in_name |-> JNull]
CardEvent(half, minute, name, cardType) ==
  [type |-> JStr("CARD"), team_side |-> JStr("HOME"), half |-> JNum(half),
   minute |-> JNum(minute), athlete_name |-> JStr(name), kind |-> JNull,
   card_type |-> JStr(cardType), reason |-> JNull, athlete_out_name |-> JNull,
   athlete_in_name |-> JNull]
SubstitutionEvent(half, minute, out, in) ==
  [type |-> JStr("SUBSTITUTION"), team_side |-> JStr("HOME"), half |-> JNum(half),
   minute |-> JNum(minute), athlete_name |-> JNull, kind |-> JNull,
   card_type |-> JNull, reason |-> JNull, athlete_out_name |-> JStr(out),
   athlete_in_name |-> JStr(in)]

GoalByAna == GoalEvent(1, 10, "Ana", "GOAL")
GoalByCaio == GoalEvent(1, 30, "Caio", "goal")
AssistByCaio == GoalEvent(2, 5, "CAIO", "assist")
YellowForAna == CardEvent(1, 20, "Ana", "YELLOW")
SecondYellowForAna == CardEvent(2, 30, "Ana", "SECOND_YELLOW")
RedForBia == CardEvent(2, 40, "Bia", "RED")
BiaForAna == SubstitutionEvent(2, 10, "Ana", "Bia")
DudaForEdu == SubstitutionEvent(1, 70, "Edu", "Duda")

\* The reports: the events of each, in the order of the report.
Reports ==
  {<<>>,
   <<GoalByAna, YellowForAna, SecondYellowForAna>>,
   <<GoalByCaio, AssistByCaio>>,
   <<SecondYellowForAna, RedForBia, BiaForAna>>,
   <<BiaForAna, DudaForEdu>>,
   <<GoalByAna, AssistByCaio, YellowForAna, DudaForEdu>>}

\* The event tables after the ingest of the report of pdfA with the events
\* given: what ingest/route.ts:346-429 stores for them.
TablesOfReport(events) ==
  LET parsedEvents == parseCanonicalEvents(events, IngestedDocument.id,
                                           IngestedDocument.match_id, IngestedDocument.match_key)
  IN [t \in EventTables |->
        CASE t = "match_lineups" -> IngestedTables[t]
          [] t = "match_goals" -> Range(parsedEvents.goals)
          [] t = "match_cards" -> Range(parsedEvents.cards)
          [] OTHER -> Range(parsedEvents.substitutions)]

\* The state after one of the reports was ingested.
InitStats ==
  /\ storage = [path \in StoragePaths |->
                  IF path = IngestedDocument.storage_path THEN "pdfA" ELSE ""]
  /\ \E events \in Reports :
       /\ documents = {[IngestedDocument EXCEPT
                          !.canonical_json = Some([IngestedCanonical EXCEPT !.events = events])]}
       /\ event_tables = TablesOfReport(events)
  /\ match_player_stats = {}
  /\ sync_runs = <<[status |-> "DONE", finished_at |-> TRUE,
                    summary_json |-> Summary("SUMULA_INGEST",
                                             [t \in EventTables |-> Cardinality(event_tables[t])]),
                    error_text |-> ""]>>
  /\ run = [p \in Procs |-> Idle]
  /\ ops = 0
  /\ lastIngest = [ok |-> FALSE, documentId |-> "", canonical |-> None, pairs |-> {},
                   repeated |-> FALSE]
  /\ matches = {}
  /\ sync_state = [c \in CompetitionIds |-> None]
  /\ lastSync = NoSync
  /\ sync_pending_links = PendingLinks

StatsRebuildBodies ==
  {body \in StatsBodies : /\ body.match_key \in {"", IngestedDocument.match_key}
                          /\ body.documentId \in {"", UnknownDocumentId}}

NextStats ==
  \/ ops < MaxRuns /\ \E body \in StatsRebuildBodies : StatsStart(1, body)
  \/ StatsCreateRun(1)
  \/ StatsLoad(1)
  \/ StatsReadExisting(1)
  \/ StatsDelete(1)
  \/ StatsReadEvents(1)
  \/ StatsInsert(1)
  \/ StatsFinalize(1)
  \/ StatsCatch(1)

SpecStats == InitStats /\ [][NextStats]_vars

\* ------------------------------------------- ingest of two written events
MaxIngests == 1

\* A card event with a reason.
CardEventFor(name, reason) ==
  [CardEvent(1, 10, name, "YELLOW") EXCEPT !.reason = reason]

\* Events as canonical_json can hold them: the strings are free text, so a
\* name or a reason may contain any character, '|' included.
WrittenEvents ==
  {GoalEvent(1, 10, name, kind) : name \in {"Ana", "Bia"}, kind \in {"GOAL", "ASSIST"}}
    \cup {CardEventFor(name, reason) :
            name \in {"Ana", "Ana|Bia"}, reason \in {JNull, JStr("mao"), JStr("Bia|mao")}}
    \cup {SubstitutionEvent(1, 10, out, in) :
            out \in {"Ana", "Ana|Bia"}, in \in {"Caio", "Bia|Caio"}}

\* The state after the report of pdfA was parsed and two events were written
\* into its canonical_json: nothing ingested yet.
InitUid ==
  /\ storage = [path \in StoragePaths |->
                  IF path = IngestedDocument.storage_path THEN "pdfA" ELSE ""]
  /\ \E first \in WrittenEvents : \E second \in WrittenEvents :
       documents = {[IngestedDocument EXCEPT
                       !.status = "CANONICAL",
                       !.canonical_json =
                          Some([IngestedCanonical EXCEPT !.events = <<first, second>>])]}
  /\ event_tables = [t \in EventTables |-> {}]
  /\ match_player_stats = {}
  /\ sync_runs = <<>>
  /\ run = [p \in Procs |-> Idle]
  /\ ops = 0
  /\ lastIngest = [ok |-> FALSE, documentId |-> "", canonical |-> None, pairs |-> {},
                   repeated |-> FALSE]
  /\ matches = {}
  /\ sync_state = [c \in CompetitionIds |-> None]
  /\ lastSync = NoSync
  /\ sync_pending_links = PendingLinks

NextUid ==
  \/ ops < MaxIngests /\ IngestStart(1, IngestedDocument.id)
  \/ IngestCreateRun(1)
  \/ IngestLoad(1)
  \/ IngestDelete(1)
  \/ IngestInsert(1)
  \/ IngestSaveDocument(1)
  \/ IngestFinalize(1)
  \/ IngestCatchDocument(1)
  \/ IngestCatchRun(1)

SpecUid == InitUid /\ [][NextUid]_vars

\* ===================================== the other writers of the statistics
\* 202602251730:26-42  the BEFORE UPDATE row trigger of match_player_stats:
\* TRUE when the update of the stored row old raises the exception.
NeverBlocked(old) == FALSE
match_player_stats_block_derived_updates(old) == old.source = "DERIVED"

ImmutableMessage ==
  "match_player_stats rows with source=DERIVED are immutable. Use rebuild pipeline."

\* part_016:140-143  update({ athlete_id }).in("id", statIds): the statement
\* is rejected as a whole, and changes nothing, when the trigger raises for
\* one of its rows or the result breaks the unique index (match_id,
\* athlete_id, source) of 20260223_sync_pending_links.sql:267-268.
UpdateAthlete(stored, targets, athleteId) ==
  LET SameAthleteOfMatch(a, b) ==
        /\ a # b
        /\ IsSome(a.athlete_id)
        /\ a.match_id = b.match_id /\ a.athlete_id = b.athlete_id /\ a.source = b.source
      hit == stored \cap targets
      updated == (stored \ hit) \cup {[old EXCEPT !.athlete_id = Some(athleteId)] : old \in hit}
      blocked == \E old \in hit : match_player_stats_block_derived_updates(old)
  IN [rejected |-> blocked \/ \E a, b \in updated : SameAthleteOfMatch(a, b),
      blocked |-> blocked,
      rows |-> IF blocked THEN stored ELSE updated]

\* part_016:73-83  POST: pending_id and athlete_id are required.
ResolveStart(p, body) ==
  /\ CanStart(p)
  /\ ops' = ops + 1
  /\ LET r == [Idle EXCEPT !.op = "resolve", !.statsAtStart = match_player_stats,
                           !.athleteId = Trim(body.athlete_id)]
     IN run' = [run EXCEPT ![p] =
                  IF Trim(body.pending_id) = "" \/ Trim(body.athlete_id) = ""
                    THEN [r EXCEPT !.pc = "done", !.response = [http |-> 400, stage |-> ""]]
                    ELSE [r EXCEPT !.pc = "resolve_load_pending",
                                   !.req = Some([pending_id |-> Trim(body.pending_id)])]]
  /\ UNCHANGED <<storage, documents, event_tables, match_player_stats, sync_runs, lastIngest,
                 matches, sync_state, lastSync, sync_pending_links>>

\* part_016:85-116  the pending row by id (maybeSingle) and its checks.
ResolveLoadPending(p) ==
  /\ run[p].pc = "resolve_load_pending"
  /\ \E o \in ReadOutcomes :
       LET r == NoteError(run[p], o)
           found == {row \in sync_pending_links : row.id = Get(r.req).pending_id}
           pendingRow == CHOOSE row \in found : TRUE
           payload == pendingRow.payload
       IN run' = [run EXCEPT ![p] =
                    IF Errored(o) THEN Throw(r, "", "sync_pending_links", "resolve_catch")
                    ELSE IF found = {} THEN Return(p, 404, "")
                    ELSE IF pendingRow.resolved_at THEN Return(p, 409, "")
                    ELSE IF pendingRow.kind # "athlete_stat" THEN Return(p, 400, "")
                    ELSE IF Trim(payload.match_id) = "" THEN Return(p, 400, "")
                    ELSE IF Trim(payload.athlete_name_raw) = "" /\ Trim(payload.cbf_registry) = ""
                      THEN Return(p, 400, "")
                    ELSE [r EXCEPT !.pc = "resolve_select_stats",
                                   !.req = Some([pending_id |-> pendingRow.id,
                                                 match_id |-> Trim(payload.match_id),
                                                 athlete_name_raw |-> Trim(payload.athlete_name_raw),
                                                 cbf_registry |-> Trim(payload.cbf_registry)])]]
  /\ UNCHANGED <<storage, documents, event_tables, match_player_stats, sync_runs, ops,
                 lastIngest, matches, sync_state, lastSync, sync_pending_links>>

\* part_016:118-138  the unresolved statistics rows the payload names.
ResolveSelectStats(p) ==
  /\ run[p].pc = "resolve_select_stats"
  /\ \E o \in ReadOutcomes :
       LET r == NoteError(run[p], o)
           payload == Get(r.req)
           statRows == {row \in match_player_stats :
                          /\ row.match_id = payload.match_id
                          /\ row.athlete_id = None
                          /\ payload.cbf_registry # ""
                               => row.cbf_registry = Some(payload.cbf_registry)
                          /\ payload.athlete_name_raw # ""
                               => row.athlete_name_raw = payload.athlete_name_raw}
       IN run' = [run EXCEPT ![p] =
                    IF Errored(o) THEN Throw(r, "", "match_player_stats", "resolve_catch")
                    ELSE IF statRows = {} THEN Return(p, 404, "")
                    ELSE [r EXCEPT !.pc = "resolve_update_stats", !.selected = statRows]]
  /\ UNCHANGED <<storage, documents, event_tables, match_player_stats, sync_runs, ops,
                 lastIngest, matches, sync_state, lastSync, sync_pending_links>>

\* part_016:140-147  update({ athlete_id }) of the selected rows.
ResolveUpdateStats(p) ==
  /\ run[p].pc = "resolve_update_stats"
  /\ \E o \in WriteOutcomes :
       LET update == UpdateAthlete(match_player_stats, run[p].selected, run[p].athleteId)
           failed == Errored(o) \/ update.rejected
           r == [run[p] EXCEPT !.storeError = @ \/ failed, !.fault = @ \/ Errored(o)]
       IN /\ match_player_stats' = IF Applied(o) /\ ~update.rejected THEN update.rows
                                                                     ELSE match_player_stats
          /\ run' = [run EXCEPT ![p] =
                       IF failed
                         THEN Throw(r, "",
                                    IF update.blocked THEN ImmutableMessage
                                                      ELSE "match_player_stats",
                                    "resolve_catch")
                         ELSE [r EXCEPT !.pc = "resolve_mark_resolved"]]
  /\ UNCHANGED <<storage, documents, event_tables, sync_runs, ops, lastIngest, matches,
                 sync_state, lastSync, sync_pending_links>>

\* part_016:149-158  update({ resolved_at }) of the pending row; 200.
ResolveMarkResolved(p) ==
  /\ run[p].pc = "resolve_mark_resolved"
  /\ \E o \in WriteOutcomes :
       LET r == NoteError(run[p], o)
           Patch(row) == IF row.id = Get(r.req).pending_id
                           THEN [row EXCEPT !.resolved_at = TRUE] ELSE row
       IN /\ sync_pending_links' = IF Applied(o) THEN {Patch(row) : row \in sync_pending_links}
                                                 ELSE sync_pending_links
          /\ run' = [run EXCEPT ![p] =
                       IF Errored(o) THEN Throw(r, "", "sync_pending_links", "resolve_catch")
                                     ELSE Return(p, 200, "")]
  /\ UNCHANGED <<storage, documents, event_tables, match_player_stats, sync_runs, ops,
                 lastIngest, matches, sync_state, lastSync>>

\* part_016:159-162  catch: 500 with the message.
ResolveCatch(p) ==
  /\ run[p].pc = "resolve_catch"
  /\ run' = [run EXCEPT ![p] = Return(p, 500, "")]
  /\ UNCHANGED <<storage, documents, event_tables, match_player_stats, sync_runs, ops,
                 lastIngest, matches, sync_state, lastSync, sync_pending_links>>

\* ------------------------------------------------------------- mock sync
\* part_014:128-139  the match of the iteration index, with the id the store
\* gives it; source has the default of the column. The random date and goals
\* are read by no handler and stand as one value.
MockMatch(index, id) ==
  LET opponents == <<"Maringa FC", "Operario", "Londrina", "Coritiba", "Athletico", "Cianorte">>
  IN [id |-> id, competition_name |-> "MOCK - Paranaense", season_year |-> 2026,
      match_date |-> "2026-03-01", opponent |-> opponents[(index % Len(opponents)) + 1],
      home |-> index % 2 = 0, goals_for |-> Some(0), goals_against |-> Some(0),
      source |-> "MOCK", source_url |-> ""]

\* part_014:147-155  a row of statsPayload as the store completes it on
\* insert: the column defaults and match_player_stats_fill_scope_fields
\* (202602251330:198-218). The random counters are read by no handler and
\* stand as 0.
MockStatsRow(matchId, athleteId) ==
  [match_id |-> matchId, athlete_id |-> Some(athleteId), cbf_registry |-> None,
   athlete_name_raw |-> "", minutes_played |-> 0, started |-> FALSE, is_captain |-> FALSE,
   participated |-> FALSE, goals |-> 0, assists |-> 0, yellow_cards |-> 0,
   red_cards |-> 0, team_side |-> "", source |-> "DERIVED", document_id |-> "",
   match_key |-> "PROD:" \o matchId,
   event_uid |-> Join(<<"md5", athleteId, "DERIVED">>, "|")]

\* part_014:157-159  upsert(statsPayload, { onConflict: "match_id,athlete_id" }):
\* a payload row that meets a stored row of its match and athlete updates
\* that row, under the update trigger; the others are inserted. The
\* statement is rejected as a whole when the trigger raises.
UpsertStats(stored, rows) ==
  LET Conflicts(new) == {old \in stored : /\ old.match_id = new.match_id
                                          /\ old.athlete_id = new.athlete_id}
      Updated(new) == {[old EXCEPT !.goals = new.goals, !.assists = new.assists,
                                   !.yellow_cards = new.yellow_cards,
                                   !.red_cards = new.red_cards] : old \in Conflicts(new)}
      hit == UNION {Conflicts(rows[i]) : i \in 1..Len(rows)}
      blocked == \E old \in hit : match_player_stats_block_derived_updates(old)
  IN [rejected |-> blocked,
      rows |-> IF blocked THEN stored
               ELSE (stored \ hit)
                      \cup UNION {IF Conflicts(rows[i]) = {} THEN {rows[i]} ELSE Updated(rows[i]) :
                                    i \in 1..Len(rows)}]

\* part_014:52-58  POST
MockStart(p) ==
  /\ CanStart(p)
  /\ ops' = ops + 1
  /\ run' = [run EXCEPT ![p] = [Idle EXCEPT !.op = "mock", !.pc = "mock_create_run",
                                            !.statsAtStart = match_player_stats]]
  /\ UNCHANGED <<storage, documents, event_tables, match_player_stats, sync_runs, lastIngest,
                 matches, sync_state, lastSync, sync_pending_links>>

\* part_014:60-70  sync_runs.insert(RUNNING); on an error 500 is returned
\* from inside the try block.
MockCreateRun(p) ==
  /\ run[p].pc = "mock_create_run"
  /\ \E o \in WriteOutcomes :
       LET r == NoteError(run[p], o)
       IN /\ sync_runs' = IF Applied(o) THEN InsertRun ELSE sync_runs
          /\ run' = [run EXCEPT ![p] =
                       IF Errored(o) THEN Return(p, 500, "")
                       ELSE [r EXCEPT !.pc = "mock_read_athletes",
                                      !.runId = Len(sync_runs) + 1]]
  /\ UNCHANGED <<storage, documents, event_tables, match_player_stats, ops, lastIngest,
                 matches, sync_state, lastSync, sync_pending_links>>

\* part_014:72-117  the athletes (their ids, in order of name); without
\* athletes the run is finalized at once, else matchesToGenerate is drawn as
\* randomInt(3, 5).
MockReadAthletes(p) ==
  /\ run[p].pc = "mock_read_athletes"
  /\ \E o \in ReadOutcomes : \E athleteRows \in {<<>>, <<"a1">>} :
     \E matchesToGenerate \in 3..5 :
       LET r == NoteError(run[p], o)
       IN run' = [run EXCEPT ![p] =
                    IF Errored(o) THEN Throw(r, "", "athletes", "mock_catch")
                    ELSE IF Len(athleteRows) = 0 THEN [r EXCEPT !.pc = "mock_finalize"]
                    ELSE [r EXCEPT !.pc = "mock_insert_match", !.queue = athleteRows,
                                   !.remaining = matchesToGenerate]]
  /\ UNCHANGED <<storage, documents, event_tables, match_player_stats, sync_runs, ops,
                 lastIngest, matches, sync_state, lastSync, sync_pending_links>>

\* part_014:120-143  matches.insert(...).select("id,match_date").single();
\* run[p].rows holds the ids of the matches inserted so far, and the store
\* gives the new match an id no row has.
MockInsertMatch(p) ==
  /\ run[p].pc = "mock_insert_match"
  /\ \E o \in WriteOutcomes :
       LET r == NoteError(run[p], o)
           id == "mock" \o NumStr(Cardinality({row \in matches : row.source = "MOCK"}) + 1)
       IN /\ matches' = IF Applied(o) THEN matches \cup {MockMatch(Len(r.rows), id)}
                                      ELSE matches
          /\ run' = [run EXCEPT ![p] =
                       IF Errored(o) THEN Throw(r, "", "Could not insert mock match.", "mock_catch")
                       ELSE [r EXCEPT !.pc = "mock_upsert_stats", !.matchId = id,
                                      !.rows = Append(@, id)]]
  /\ UNCHANGED <<storage, documents, event_tables, match_player_stats, sync_runs, ops,
                 lastIngest, sync_state, lastSync, sync_pending_links>>

\* part_014:147-164  the statsPayload of the match and its upsert; the loop
\* goes on until matchesToGenerate matches are done.
MockUpsertStats(p) ==
  /\ run[p].pc = "mock_upsert_stats"
  /\ \E o \in WriteOutcomes :
       LET statsPayload == [i \in 1..Len(run[p].queue) |->
                              MockStatsRow(run[p].matchId, run[p].queue[i])]
           upsert == UpsertStats(match_player_stats, statsPayload)
           failed == Errored(o) \/ upsert.rejected
           r == [run[p] EXCEPT !.storeError = @ \/ failed, !.fault = @ \/ Errored(o)]
       IN /\ match_player_stats' = IF Applied(o) /\ ~upsert.rejected THEN upsert.rows
                                                                     ELSE match_player_stats
          /\ run' = [run EXCEPT ![p] =
                       IF failed
                         THEN Throw(r, "", IF upsert.rejected THEN ImmutableMessage
                                                              ELSE "match_player_stats",
                                    "mock_catch")
                       ELSE [r EXCEPT !.remaining = @ - 1,
                                      !.pc = IF r.remaining = 1 THEN "mock_finalize"
                                                                ELSE "mock_insert_match"]]
  /\ UNCHANGED <<storage, documents, event_tables, sync_runs, ops, lastIngest, matches,
                 sync_state, lastSync, sync_pending_links>>

\* part_014:83-113 and 175-194  sync_runs.update(DONE).select().single()
MockFinalize(p) ==
  /\ run[p].pc = "mock_finalize"
  /\ \E o \in WriteOutcomes :
       LET r == NoteError(run[p], o)
       IN /\ sync_runs' = IF Applied(o) THEN FinishRunDone(r.runId, "MOCK") ELSE sync_runs
          /\ run' = [run EXCEPT ![p] =
                       IF Errored(o)
                         THEN Throw(r, "", "Could not finalize sync run.", "mock_catch")
                         ELSE Return(p, 200, "")]
  /\ UNCHANGED <<storage, documents, event_tables, match_player_stats, ops, lastIngest,
                 matches, sync_state, lastSync, sync_pending_links>>

\* part_014:195-210  catch: the ledger entry is updated to ERROR (result not
\* looked at) and 500 is returned; runId is set whenever control gets here.
MockCatch(p) ==
  /\ run[p].pc = "mock_catch"
  /\ \E o \in WriteOutcomes :
       /\ sync_runs' = IF Applied(o) THEN FinishRunError(run[p].runId, run[p].message)
                                     ELSE sync_runs
       /\ run' = [run EXCEPT ![p] = Return(p, 500, "")]
  /\ UNCHANGED <<storage, documents, event_tables, match_player_stats, ops, lastIngest,
                 matches, sync_state, lastSync, sync_pending_links>>

\* ------------------------------------------- the writers of the statistics
\* A row of match_player_stats that was entered by hand for an athlete not
\* yet linked: its source is not DERIVED.
ManualRow ==
  [match_id |-> "m1", athlete_id |-> None, cbf_registry |-> None,
   athlete_name_raw |-> "Zeca", minutes_played |-> 90, started |-> TRUE, is_captain |-> FALSE,
   participated |-> TRUE, goals |-> 1, assists |-> 0, yellow_cards |-> 0, red_cards |-> 0,
   team_side |-> "HOME", source |-> "MANUAL", document_id |-> "",
   match_key |-> "PROD:m1", event_uid |-> "manual|Zeca"]

\* The state after a report with one substitution was ingested: no
\* statistics rebuilt yet, a hand-entered row and the pending links.
InitWriters ==
  /\ storage = [path \in StoragePaths |->
                  IF path = IngestedDocument.storage_path THEN "pdfA" ELSE ""]
  /\ documents = {[IngestedDocument EXCEPT
                     !.canonical_json = Some([IngestedCanonical EXCEPT !.events = <<BiaForAna>>])]}
  /\ event_tables = TablesOfReport(<<BiaForAna>>)
  /\ match_player_stats = {ManualRow}
  /\ sync_runs = <<[status |-> "DONE", finished_at |-> TRUE,
                    summary_json |-> Summary("SUMULA_INGEST",
                                             [t \in EventTables |-> Cardinality(event_tables[t])]),
                    error_text |-> ""]>>
  /\ run = [p \in Procs |-> Idle]
  /\ ops = 0
  /\ lastIngest = [ok |-> FALSE, documentId |-> "", canonical |-> None, pairs |-> {},
                   repeated |-> FALSE]
  /\ matches = {}
  /\ sync_state = [c \in CompetitionIds |-> None]
  /\ lastSync = NoSync
  /\ sync_pending_links = PendingLinks

NextWriters ==
  \/ ops < MaxRuns /\ StatsStart(1, [match_key |-> IngestedDocument.match_key, documentId |-> ""])
  \/ StatsCreateRun(1)
  \/ StatsLoad(1)
  \/ StatsReadExisting(1)
  \/ StatsDelete(1)
  \/ StatsReadEvents(1)
  \/ StatsInsert(1)
  \/ StatsFinalize(1)
  \/ StatsCatch(1)
  \/ ops < MaxRuns /\ \E body \in [pending_id : {"", "p1", "p2", "p3", "p9"},
                                     athlete_id : {"", "a1"}] : ResolveStart(1, body)
  \/ ResolveLoadPending(1)
  \/ ResolveSelectStats(1)
  \/ ResolveUpdateStats(1)
  \/ ResolveMarkResolved(1)
  \/ ResolveCatch(1)
  \/ ops < MaxRuns /\ MockStart(1)
  \/ MockCreateRun(1)
  \/ MockReadAthletes(1)
  \/ MockInsertMatch(1)
  \/ MockUpsertStats(1)
  \/ MockFinalize(1)
  \/ MockCatch(1)

SpecWriters == InitWriters /\ [][NextWriters]_vars

\* ------------------------------------------------ ingest of drafted events
\* Events as a canonical_json written by hand can hold them: well-formed
\* ones and ones with a field that is missing, of another type, out of
\* range or written loosely.
DraftGoal == GoalEvent(1, 10, "Ana", "GOAL")
DraftCard == CardEvent(2, 44, "Bia", "RED")
DraftSubstitution == SubstitutionEvent(2, 15, "Ana", "Bia")
DraftEvents ==
  {DraftGoal, DraftCard, DraftSubstitution,
   [DraftGoal EXCEPT !.team_side = JStr(" away ")],
   [DraftGoal EXCEPT !.team_side = JStr("LEFT")],
   [DraftGoal EXCEPT !.team_side = JNull],
   [DraftCard EXCEPT !.half = JStr("2")],
   [DraftCard EXCEPT !.half = JNum(3)],
   [DraftCard EXCEPT !.half = JDec(15)],
   [DraftGoal EXCEPT !.minute = JNum(-1)],
   [DraftGoal EXCEPT !.minute = JDec(455)],
   [DraftGoal EXCEPT !.minute = JDec(-5)],
   [DraftGoal EXCEPT !.minute = JStr(" 45 ")],
   [DraftGoal EXCEPT !.minute = JStr("4x")],
   [DraftGoal EXCEPT !.minute = JStr("1000")],
   [DraftGoal EXCEPT !.minute = JNull],
   [DraftCard EXCEPT !.card_type = JStr("yellow ")],
   [DraftCard EXCEPT !.card_type = JStr("BLUE")],
   [DraftCard EXCEPT !.card_type = JNull],
   [DraftSubstitution EXCEPT !.athlete_in_name = JStr("  ")],
   [DraftSubstitution EXCEPT !.athlete_out_name = JNull],
   [DraftGoal EXCEPT !.type = JStr("VAR")],
   [DraftGoal EXCEPT !.type = JNull]}

\* The document of the production match, parsed, with two drafted events
\* in its report; nothing ingested yet.
InitEvents ==
  /\ storage = [path \in StoragePaths |->
                  IF path = IngestedDocument.storage_path THEN "pdfA" ELSE ""]
  /\ \E first \in DraftEvents :
       \E second \in {DraftSubstitution, [DraftCard EXCEPT !.card_type = JStr("BLUE")]} :
         documents = {[IngestedDocument EXCEPT
                         !.status = "CANONICAL",
                         !.canonical_json =
                            Some([IngestedCanonical EXCEPT !.events = <<first, second>>])]}
  /\ event_tables = [t \in EventTables |-> {}]
  /\ match_player_stats = {}
  /\ sync_runs = <<>>
  /\ run = [p \in Procs |-> Idle]
  /\ ops = 0
  /\ lastIngest = [ok |-> FALSE, documentId |-> "", canonical |-> None, pairs |-> {},
                   repeated |-> FALSE]
  /\ matches = {}
  /\ sync_state = [c \in CompetitionIds |-> None]
  /\ lastSync = NoSync
  /\ sync_pending_links = PendingLinks

SpecEvents == InitEvents /\ [][NextUid]_vars

\* ------------------------------------------- runs for two match_keys at once
\* A second document, of the sandbox match, ingested from pdfB.
SandboxRequest ==
  [scope |-> "SANDBOX", match_id |-> "", sandbox_match_id |-> "s1", file |-> "pdfB",
   type |-> "application/pdf"]
SandboxCanonical == parseToCanonical(extractPdfRawText("pdfB").text)
SandboxDocument ==
  [NewDocument(SandboxRequest) EXCEPT
     !.status = "EVENTS_SAVED",
     !.raw_text = Some(extractPdfRawText("pdfB").text),
     !.canonical_json = Some(SandboxCanonical)]

\* The document each of the two concurrent requests works on.
DocumentOf(p) == IF p = 1 THEN IngestedDocument ELSE SandboxDocument

\* Both documents ingested, and one hand-entered statistics row for each
\* match_key.
InitKeys ==
  /\ storage = [path \in StoragePaths |->
                  IF path = IngestedDocument.storage_path THEN "pdfA" ELSE "pdfB"]
  /\ documents = {IngestedDocument, SandboxDocument}
  /\ event_tables =
       [t \in EventTables |->
          IF t = "match_lineups"
            THEN Range(LineupRowsOf(IngestedDocument.id, IngestedDocument.match_id,
                                    IngestedDocument.match_key, IngestedCanonical))
                   \cup Range(LineupRowsOf(SandboxDocument.id, SandboxDocument.match_id,
                                           SandboxDocument.match_key, SandboxCanonical))
            ELSE {}]
  /\ match_player_stats =
       {ManualRow, [ManualRow EXCEPT !.match_id = SandboxDocument.match_id,
                                     !.match_key = SandboxDocument.match_key]}
  /\ sync_runs = <<>>
  /\ run = [p \in Procs |-> Idle]
  /\ ops = 0
  /\ lastIngest = [ok |-> FALSE, documentId |-> "", canonical |-> None, pairs |-> {},
                   repeated |-> FALSE]
  /\ matches = {}
  /\ sync_state = [c \in CompetitionIds |-> None]
  /\ lastSync = NoSync
  /\ sync_pending_links = PendingLinks

\* Each request runs once, the two at the same time: an ingest or a rebuild
\* for its own match_key.
NextKeys ==
  \E p \in Procs :
    \/ run[p].pc = "idle" /\ IngestStart(p, DocumentOf(p).id)
    \/ IngestCreateRun(p)
    \/ IngestLoad(p)
    \/ IngestDelete(p)
    \/ IngestInsert(p)
    \/ IngestSaveDocument(p)
    \/ IngestFinalize(p)
    \/ IngestCatchDocument(p)
    \/ IngestCatchRun(p)
    \/ run[p].pc = "idle"
         /\ StatsStart(p, [match_key |-> DocumentOf(p).match_key, documentId |-> ""])
    \/ StatsCreateRun(p)
    \/ StatsLoad(p)
    \/ StatsReadExisting(p)
    \/ StatsDelete(p)
    \/ StatsReadEvents(p)
    \/ StatsInsert(p)
    \/ StatsFinalize(p)
    \/ StatsCatch(p)

SpecKeys == InitKeys /\ [][NextKeys]_vars

\* ------------------------------------------- two runs for one match_key
\* The ingested document after another file was uploaded over pdfA: the
\* upload replaces the stored object and the payload columns and leaves
\* status and canonical_json as they were.
ReuploadedDocument(file) ==
  UploadPayload([IngestedRequest EXCEPT !.file = file]) @@ IngestedDocument

InitSame ==
  /\ \E file \in {"pdfB", "pdfEmpty"} :
       /\ storage = [path \in StoragePaths |->
                       IF path = IngestedDocument.storage_path THEN file ELSE ""]
       /\ documents = {ReuploadedDocument(file)}
  /\ event_tables = IngestedTables
  /\ match_player_stats = {}
  /\ sync_runs = <<>>
  /\ run = [p \in Procs |-> Idle]
  /\ ops = 0
  /\ lastIngest = [ok |-> FALSE, documentId |-> "", canonical |-> None, pairs |-> {},
                   repeated |-> FALSE]
  /\ matches = {}
  /\ sync_state = [c \in CompetitionIds |-> None]
  /\ lastSync = NoSync
  /\ sync_pending_links = PendingLinks

\* Each of two requests runs once, an ingest or a parse of the one document;
\* nothing keeps the second from starting while the first is in flight.
NextSame ==
  \E p \in Procs :
    \/ run[p].pc = "idle" /\ IngestStart(p, IngestedDocument.id)
    \/ IngestCreateRun(p)
    \/ IngestLoad(p)
    \/ IngestDelete(p)
    \/ IngestInsert(p)
    \/ IngestSaveDocument(p)
    \/ IngestFinalize(p)
    \/ IngestCatchDocument(p)
    \/ IngestCatchRun(p)
    \/ run[p].pc = "idle" /\ ParseStart(p, IngestedDocument.id)
    \/ ParseLoad(p)
    \/ ParseDownload(p)
    \/ ParseSaveRaw(p)
    \/ ParseSaveCanonical(p)
    \/ ParseCatch(p)

SpecSame == InitSame /\ [][NextSame]_vars

\* ------------------------------------------------- the detail-fetch pool
\* part_002:619  mapWithConcurrency(matches, 3, ...)
DetailsConcurrency == 3
MaxItems == 5

Min(a, b) == IF a < b THEN a ELSE b

\* A variant of WorkerCount that starts one runner per item.
WorkerPerItem(limit, length) == length

\* part_002:549  Math.min(limit, items.length)
WorkerCount(limit, length) == Min(limit, length)

\* The locals of mapWithConcurrency (indices count from 0, as in the code):
\* current[w] is the index runner w awaits the worker for, None once the
\* runner has left its loop; calls and returned are history: how often the
\* worker was called for an index and what its call returned.
NewPool(items, runners) ==
  [items |-> items,
   nextIndex |-> 0,
   results |-> [i \in 0..(Len(items) - 1) |-> None],
   current |-> [w \in 1..runners |-> None],
   calls |-> [i \in 0..(Len(items) - 1) |-> 0],
   returned |-> [i \in 0..(Len(items) - 1) |-> None]]

\* part_002:542-547  runWorker up to its await: the loop test, current =
\* nextIndex, nextIndex += 1, the call of the worker.
runWorker(pool, w) ==
  IF pool.nextIndex < Len(pool.items)
    THEN [pool EXCEPT !.current[w] = Some(pool.nextIndex),
                      !.calls[pool.nextIndex] = @ + 1,
                      !.nextIndex = @ + 1]
    ELSE [pool EXCEPT !.current[w] = None]

\* part_002:549  Array.from({ length }, () => runWorker()): the runners
\* start one after the other, each running up to its first await.
RECURSIVE StartWorkers(_, _)
StartWorkers(pool, w) ==
  IF w > Len(pool.current) THEN pool ELSE StartWorkers(runWorker(pool, w), w + 1)

\* part_002:619-652  what the worker returns for a match: { ...match, details }.
WorkerResult(item, details) == [item |-> item, details |-> details]

PoolOpponents == <<"Operario", "Londrina", "Cianorte", "Cascavel", "Azuriz", "Maringa FC">>
PoolInputs ==
  UNION {{[i \in 1..n |-> Fixture("Galo Maringa", PoolOpponents[i],
                                  IF i \in withUrl THEN "u1/jogo/1" ELSE "")] :
            withUrl \in SUBSET (1..n)} : n \in 0..MaxItems}

\* part_002:533-540, 549  mapWithConcurrency up to await Promise.all(workers)
MapStart(p, items) ==
  /\ CanStart(p)
  /\ ops' = ops + 1
  /\ run' = [run EXCEPT ![p] =
               [Idle EXCEPT !.op = "map", !.pc = "map_await",
                            !.pool = StartWorkers(
                                       NewPool(items, WorkerCount(DetailsConcurrency, Len(items))),
                                       1)]]
  /\ UNCHANGED <<storage, documents, event_tables, match_player_stats, sync_runs, lastIngest,
                 matches, sync_state, lastSync, sync_pending_links>>

\* part_002:546  results[current] = await worker(items[current], current):
\* the worker's promise of one runner settles (the worker does not throw:
\* fetchMatchDetails answers {} on every failure), the result is stored at
\* the runner's index and the runner goes round its loop.
MapWorkerReturns(p) ==
  /\ run[p].pc = "map_await"
  /\ \E w \in DOMAIN run[p].pool.current : \E details \in DetailsResults :
       LET pool == run[p].pool
           index == Get(pool.current[w])
           item == pool.items[index + 1]
           result == WorkerResult(item, details)
       IN /\ IsSome(pool.current[w])
          /\ item.details_url = "" => details = NoDetails
          /\ run' = [run EXCEPT ![p].pool =
                       runWorker([pool EXCEPT !.results[index] = Some(result),
                                              !.returned[index] = Some(result)], w)]
  /\ UNCHANGED <<storage, documents, event_tables, match_player_stats, sync_runs, ops,
                 lastIngest, matches, sync_state, lastSync, sync_pending_links>>

\* part_002:550-552  Promise.all(workers) resolves when every runner has
\* left its loop; return results.
MapComplete(p) ==
  /\ run[p].pc = "map_await"
  /\ \A w \in DOMAIN run[p].pool.current : ~IsSome(run[p].pool.current[w])
  /\ run' = [run EXCEPT ![p].pc = "done"]
  /\ UNCHANGED <<storage, documents, event_tables, match_player_stats, sync_runs, ops,
                 lastIngest, matches, sync_state, lastSync, sync_pending_links>>

NextPool ==
  \/ \E items \in PoolInputs : run[1].pc = "idle" /\ MapStart(1, items)
  \/ MapWorkerReturns(1)
  \/ MapComplete(1)

SpecPool == Init /\ [][NextPool]_vars

\* --------------------------------------- ingest of a report with repeats
\* Reports that are structurally valid and name one athlete twice in a list
\* or hold one goal twice, and two without a repeat.
RepeatedAthlete == [shirt_number |-> Some(7), name |-> "Bia"]
RepeatReports ==
  {parseToCanonical(extractPdfRawText("pdfDup").text),
   [IngestedCanonical EXCEPT !.lineups.home.reserves = <<RepeatedAthlete, RepeatedAthlete>>],
   [IngestedCanonical EXCEPT !.lineups.away.starters = <<RepeatedAthlete, RepeatedAthlete>>],
   [IngestedCanonical EXCEPT !.events = <<GoalEvent(1, 10, "Ana", "GOAL"),
                                          GoalEvent(1, 10, "Ana", "GOAL")>>],
   [IngestedCanonical EXCEPT !.events = <<GoalEvent(1, 10, "Ana", "GOAL"),
                                          GoalEvent(2, 10, "Ana", "GOAL")>>],
   [IngestedCanonical EXCEPT !.lineups.home.reserves =
                                <<RepeatedAthlete, [RepeatedAthlete EXCEPT !.shirt_number = Some(8)]>>]}

\* The state after pdfA was ingested and the document's canonical_json was
\* replaced by one of the reports: the rows of the first ingest are stored.
InitDup ==
  /\ storage = [path \in StoragePaths |->
                  IF path = IngestedDocument.storage_path THEN "pdfA" ELSE ""]
  /\ \E report \in RepeatReports :
       documents = {[IngestedDocument EXCEPT !.status = "CANONICAL",
                                             !.canonical_json = Some(report)]}
  /\ event_tables = IngestedTables
  /\ match_player_stats = {}
  /\ sync_runs = <<>>
  /\ run = [p \in Procs |-> Idle]
  /\ ops = 0
  /\ lastIngest = [ok |-> FALSE, documentId |-> "", canonical |-> None, pairs |-> {},
                   repeated |-> FALSE]
  /\ matches = {}
  /\ sync_state = [c \in CompetitionIds |-> None]
  /\ lastSync = NoSync
  /\ sync_pending_links = PendingLinks

SpecDup == InitDup /\ [][NextUid]_vars

\* ------------------------------------------------ runs under fair scheduling
\* The steps a started request takes on its own: each awaits a call to the
\* store, which answers. SyncFetch is not among them: it is taken when the
\* external source has answered, and fetch is called without a signal or a
\* timer (adapter.ts:257-263, 335-341), so nothing in the program makes it
\* happen.
ProgramStep ==
  \/ IngestCreateRun(1) \/ IngestLoad(1) \/ IngestDelete(1) \/ IngestInsert(1)
  \/ IngestSaveDocument(1) \/ IngestFinalize(1) \/ IngestCatchDocument(1) \/ IngestCatchRun(1)
  \/ StatsCreateRun(1) \/ StatsLoad(1) \/ StatsReadExisting(1) \/ StatsDelete(1)
  \/ StatsReadEvents(1) \/ StatsInsert(1) \/ StatsFinalize(1) \/ StatsCatch(1)
  \/ SyncCreateRun(1) \/ SyncReadCompetitions(1) \/ SyncReadState(1) \/ SyncTouchState(1)
  \/ SyncUpsertMatches(1) \/ SyncUpsertState(1) \/ SyncFinalize(1) \/ SyncCatch(1)

SpecLive == InitRuns /\ [][NextRuns]_vars /\ WF_vars(ProgramStep)

\* ================================================================== claims
Returned(p, op) == run[p].op = op /\ run[p].pc = "done"
FailedStages == {"DELETE_EXISTING", "INSERT_EVENTS", "SAVE_DOCUMENT"}

\* C1: an ingest run over a match_key that has stored events, when it fails
\* once its deletes have started, leaves in the four event tables exactly
\* the rows of the match_key that were there when the run began.
C1_IngestReplacesAtomically ==
  \A p \in Procs :
    (/\ Returned(p, "ingest") /\ run[p].response.http = 500
     /\ run[p].failedAt \in FailedStages
     /\ EventPairs(run[p].rowsAtStart, run[p].matchKey) # {})
      => \A t \in EventTables :
           RowsWithKey(event_tables[t], run[p].matchKey)
             = RowsWithKey(run[p].rowsAtStart[t], run[p].matchKey)

\* An ingest run returns in this step.
IngestReturns(p) ==
  /\ run[p].op = "ingest"
  /\ run[p].pc \in {"ingest_finalize", "ingest_catch_run"}
  /\ run'[p].pc = "done"

\* C3: when the ingest run before this one answered 200 on the same report of
\* the same document, and no store request of this run is hit by a fault,
\* this run answers 200 too and leaves the same (match_key, event_uid) pairs
\* in every event table.
C3_IngestTwiceSameEvents ==
  [][\A p \in Procs :
       (/\ IngestReturns(p)
        /\ lastIngest.ok
        /\ lastIngest.documentId = run[p].documentId
        /\ lastIngest.canonical = run[p].canonical
        /\ ~run'[p].fault)
       => /\ run'[p].response.http = 200
          /\ EventPairs(event_tables', run[p].matchKey) = lastIngest.pairs]_vars

\* Two runs in a row answered 200 on a report that has events.
C3_Witness == lastIngest.repeated /\ lastIngest.pairs # {}

ParseFailureStages == {"DOWNLOAD_PDF", "PARSE_RAW", "SAVE_RAW", "SAVE_CANONICAL"}

\* C4: a parse run that fails at the download, the extraction, the raw save
\* or the canonical save leaves the document with status ERROR and a
\* parse_error message.
C4_ParseFailureMarksError ==
  \A p \in Procs :
    (Returned(p, "parse") /\ run[p].response.stage \in ParseFailureStages)
      => \A d \in DocumentsWithId(run[p].documentId) :
           d.status = "ERROR" /\ d.parse_error # ""

\* C5: an ingest run that fails after its ledger entry was created leaves the
\* document with status ERROR and a parse_error message, and the entry with
\* status ERROR, finished_at set and error_text set.
C5_IngestFailureMarksError ==
  \A p \in Procs :
    (Returned(p, "ingest") /\ run[p].response.http = 500 /\ run[p].runId # 0)
      => /\ \A d \in DocumentsWithId(run[p].documentId) :
              d.status = "ERROR" /\ d.parse_error # ""
         /\ sync_runs[run[p].runId].status = "ERROR"
         /\ sync_runs[run[p].runId].finished_at
         /\ sync_runs[run[p].runId].error_text # ""

Statuses == {"UPLOADED", "PARSED_RAW", "CANONICAL", "EVENTS_SAVED", "ERROR"}

\* The stored file of the document can be read as text.
Extractable(d) == storage[d.storage_path] # "" /\ ~extractPdfRawText(storage[d.storage_path]).threw

\* C6: whatever the status of the document, a parse run that meets no store
\* error and finds a readable file first stores the extracted raw_text with
\* status PARSED_RAW and ends with the canonical report of that text and
\* status CANONICAL; an ingest run on a valid canonical report that meets
\* no store error ends with status EVENTS_SAVED.
C6_ReEntrant ==
  \A p \in Procs :
    /\ run[p].pc = "parse_save_canonical"
         => LET d == TheDocument(run[p].documentId)
            IN /\ d.status = "PARSED_RAW"
               /\ d.raw_text = Some(extractPdfRawText(storage[d.storage_path]).text)
    /\ (Returned(p, "parse") /\ ~run[p].storeError)
         => \A d \in DocumentsWithId(run[p].documentId) :
              Extractable(d)
                => /\ run[p].response.http = 200
                   /\ run[p].statusAtStart \in Statuses
                   /\ d.status = "CANONICAL"
                   /\ d.raw_text = Some(extractPdfRawText(storage[d.storage_path]).text)
                   /\ d.canonical_json = Some(parseToCanonical(Get(d.raw_text)))
    /\ (Returned(p, "ingest") /\ ~run[p].storeError)
         => \A d \in DocumentsWithId(run[p].documentId) :
              IsSome(parseCanonical(d.canonical_json))
                => /\ run[p].response.http = 200
                   /\ run[p].statusAtStart \in Statuses
                   /\ d.status = "EVENTS_SAVED"

\* A parse run over a document that was in EVENTS_SAVED has ended.
C6_Witness ==
  /\ Returned(1, "parse") /\ run[1].response.http = 200
  /\ run[1].statusAtStart = "EVENTS_SAVED"
  /\ \E d \in DocumentsWithId(run[1].documentId) : d.status = "CANONICAL"

\* C7: raw_text changes only when the raw save of a parse run writes the
\* extracted text, canonical_json only when its canonical save writes the
\* report; every other step, the two catch blocks included, leaves both
\* fields of every document as they were.
C7_OutputsKept ==
  [][\A d \in documents : \A e \in documents' :
       e.id = d.id =>
         /\ e.raw_text # d.raw_text
              => \E p \in Procs : /\ run[p].pc = "parse_save_raw"
                                  /\ e.id = run[p].documentId
                                  /\ e.raw_text = Some(run[p].rawText)
         /\ e.canonical_json # d.canonical_json
              => \E p \in Procs : /\ run[p].pc = "parse_save_canonical"
                                  /\ e.id = run[p].documentId
                                  /\ e.canonical_json = Some(parseToCanonical(run[p].rawText))]_vars

\* A failed ingest run has marked ERROR a document that holds both outputs.
C7_Witness ==
  /\ Returned(1, "ingest") /\ run[1].response.http = 500
  /\ \E d \in DocumentsWithId(run[1].documentId) :
       d.status = "ERROR" /\ d.parse_error # "" /\ IsSome(d.raw_text) /\ IsSome(d.canonical_json)

\* C9: after an upload that answered 200, the document of the match_key has
\* status UPLOADED.
C9_UploadLeavesUploaded ==
  \A p \in Procs :
    (Returned(p, "upload") /\ run[p].response.http = 200)
      => \A d \in DocumentsWithKey(run[p].matchKey) : d.status = "UPLOADED"

\* C2: a stats rebuild that fails leaves the match_player_stats rows that
\* were stored before the call exactly as they were.
C2_RebuildKeepsPriorStats ==
  \A p \in Procs :
    (Returned(p, "stats") /\ run[p].response.http = 500 /\ run[p].statsAtStart # {})
      => match_player_stats = run[p].statsAtStart

\* C8: an upload request whose scope is PROD and whose sandbox_match_id is
\* not empty is answered with an error by the validation, so that it never
\* reaches the storage write or the document upsert.
C8_ProdWithSandboxIdRejected ==
  \A p \in Procs :
    (/\ run[p].op = "upload" /\ IsSome(run[p].req)
     /\ ScopeOf(Get(run[p].req)) = "PROD" /\ Get(run[p].req).sandbox_match_id # "")
      => /\ run[p].pc = "done"
         /\ run[p].response.http \in {400, 415}

LedgerOps == {"ingest", "stats", "sync"}

\* C10: a ledger entry that has left RUNNING never changes its status again,
\* and an ingest, stats-rebuild or fixture-sync run that created its entry
\* returns with the entry in DONE or ERROR.
C10_LedgerFinalizedOnce ==
  [][/\ Len(sync_runs') >= Len(sync_runs)
     /\ \A i \in 1..Len(sync_runs) :
          sync_runs[i].status # "RUNNING" => sync_runs'[i].status = sync_runs[i].status
     /\ \A p \in Procs :
          (/\ run[p].op \in LedgerOps /\ run[p].pc # "done" /\ run'[p].pc = "done"
           /\ run'[p].runId # 0)
            => sync_runs'[run'[p].runId].status \in {"DONE", "ERROR"}]_vars

\* C11: an ingest run that fails by throwing answers with the stage at which
\* the failure occurred: the stage of the response is the stage the run was
\* in when it threw.
C11_StageNamesFailure ==
  \A p \in Procs :
    (Returned(p, "ingest") /\ run[p].response.http = 500 /\ run[p].failedAt # "")
      => run[p].response.stage = run[p].failedAt

\* The athlete a stats row or an event row names: the athlete_id when there
\* is one, else the team side and the normalized name.
AthleteIdentity(teamSide, athleteId, name) ==
  IF IsSome(athleteId) THEN <<"id", Get(athleteId)>>
  ELSE <<"name", teamSide, ToUpperCase(normalizeName(name))>>
IdentityOfRow(row) == AthleteIdentity(row.team_side, row.athlete_id, row.athlete_name_raw)
IdentityOut(row) == AthleteIdentity(row.team_side, row.athlete_out_id, row.athlete_out_name_raw)
IdentityIn(row) == AthleteIdentity(row.team_side, row.athlete_in_id, row.athlete_in_name_raw)

\* A substitution minute on the timeline of the match.
NormalizedMinute(row) ==
  LET sum == (IF row.half = 2 THEN 45 ELSE 0) + (IF row.minute > 0 THEN row.minute ELSE 0)
  IN IF sum > 120 THEN 120 ELSE sum
SubInMinutes(identity, matchKey) ==
  {NormalizedMinute(row) : row \in {stored \in RowsWithKey(match_substitutions, matchKey) :
                                      IdentityIn(stored) = identity}}
SubOutMinutes(identity, matchKey) ==
  {NormalizedMinute(row) : row \in {stored \in RowsWithKey(match_substitutions, matchKey) :
                                      IdentityOut(stored) = identity}}
Smallest(ns) == CHOOSE n \in ns : \A m \in ns : n <= m
IsStarter(identity, matchKey) ==
  \E row \in RowsWithKey(match_lineups, matchKey) :
    IdentityOfRow(row) = identity /\ ToUpperCase(row.role) \in {"STARTER", "GK_STARTER"}

\* A stats rebuild has answered 200.
Rebuilt(p) == Returned(p, "stats") /\ run[p].response.http = 200

\* C12: after a rebuild, every athlete who started or has a sub-in minute has
\* minutes_played = max(0, exit - entry): entry is 0 for a starter, else the
\* smallest normalized sub-in minute; exit is the smallest normalized sub-out
\* minute capped at 90, or 90 without a sub-out.
C12_MinutesPlayed ==
  \A p \in Procs :
    Rebuilt(p) =>
      \A row \in RowsWithKey(match_player_stats, run[p].matchKey) :
        LET ins == SubInMinutes(IdentityOfRow(row), run[p].matchKey)
            outs == SubOutMinutes(IdentityOfRow(row), run[p].matchKey)
            starter == IsStarter(IdentityOfRow(row), run[p].matchKey)
            entry == IF starter THEN 0 ELSE Smallest(ins)
            exit == IF outs = {} THEN 90 ELSE MinOf(90, Smallest(outs))
        IN (starter \/ ins # {}) => row.minutes_played = MaxOf(0, exit - entry)

\* A rebuild has written 55 minutes for the starter taken off at minute 10 of
\* the second half and 20 for the substitute who came on at minute 70 of the
\* first half and stayed.
C12_Witness ==
  /\ Rebuilt(1)
  /\ \E row \in match_player_stats :
       row.athlete_name_raw = "Ana" /\ row.started /\ row.minutes_played = 55
  /\ \E row \in match_player_stats :
       row.athlete_name_raw = "Duda" /\ ~row.started /\ row.minutes_played = 20

\* C13: after a rebuild, every athlete who did not start and has no sub-in
\* minute has minutes_played = 0, whatever other rows name the athlete.
C13_NoEntryNoMinutes ==
  \A p \in Procs :
    Rebuilt(p) =>
      \A row \in RowsWithKey(match_player_stats, run[p].matchKey) :
        (/\ ~IsStarter(IdentityOfRow(row), run[p].matchKey)
         /\ SubInMinutes(IdentityOfRow(row), run[p].matchKey) = {})
          => row.minutes_played = 0

\* The goal rows and the card rows of a match_key that name an athlete.
GoalsOf(identity, matchKey) ==
  {row \in RowsWithKey(match_goals, matchKey) : IdentityOfRow(row) = identity}
CardsOf(identity, matchKey) ==
  {row \in RowsWithKey(match_cards, matchKey) : IdentityOfRow(row) = identity}

\* C14: after a rebuild, the row of every athlete has goals = the number of
\* the athlete's goal rows whose kind is not ASSIST, assists = the number
\* whose kind is ASSIST, yellow_cards = the number of YELLOW and SECOND_YELLOW
\* card rows and red_cards = the number of RED and SECOND_YELLOW card rows.
C14_CountsMatchEvents ==
  \A p \in Procs :
    Rebuilt(p) =>
      \A row \in RowsWithKey(match_player_stats, run[p].matchKey) :
        LET goals == GoalsOf(IdentityOfRow(row), run[p].matchKey)
            cards == CardsOf(IdentityOfRow(row), run[p].matchKey)
        IN /\ row.goals = Cardinality({g \in goals : g.kind # "ASSIST"})
           /\ row.assists = Cardinality({g \in goals : g.kind = "ASSIST"})
           /\ row.yellow_cards =
                Cardinality({c \in cards : c.card_type \in {"YELLOW", "SECOND_YELLOW"}})
           /\ row.red_cards =
                Cardinality({c \in cards : c.card_type \in {"RED", "SECOND_YELLOW"}})

\* A rebuild has counted a yellow and a second yellow card of one athlete as
\* two yellow cards and one red card, next to the athlete's goal.
C14_Witness ==
  /\ Rebuilt(1)
  /\ \E row \in match_player_stats :
       /\ row.athlete_name_raw = "Ana"
       /\ row.goals = 1 /\ row.assists = 0 /\ row.yellow_cards = 2 /\ row.red_cards = 1
       /\ Cardinality({c \in CardsOf(IdentityOfRow(row), row.match_key) :
                         c.card_type = "SECOND_YELLOW"}) = 1

\* The athletes the event rows of a match_key name: in lineups, goals and
\* cards, and going out or coming in in substitutions.
Named(row) == IsSome(row.athlete_id) \/ normalizeName(row.athlete_name_raw) # ""
NamedOut(row) == IsSome(row.athlete_out_id) \/ normalizeName(row.athlete_out_name_raw) # ""
NamedIn(row) == IsSome(row.athlete_in_id) \/ normalizeName(row.athlete_in_name_raw) # ""
ReferencedAthletes(matchKey) ==
  {IdentityOfRow(row) :
     row \in {stored \in RowsWithKey(match_lineups, matchKey)
                           \cup RowsWithKey(match_goals, matchKey)
                           \cup RowsWithKey(match_cards, matchKey) : Named(stored)}}
    \cup {IdentityOut(row) :
            row \in {stored \in RowsWithKey(match_substitutions, matchKey) : NamedOut(stored)}}
    \cup {IdentityIn(row) :
            row \in {stored \in RowsWithKey(match_substitutions, matchKey) : NamedIn(stored)}}

\* C15: after a rebuild that answered 200, match_player_stats holds for the
\* match_key exactly one row per athlete the lineup, goal, card and
\* substitution rows name, every one with source DERIVED and participated.
C15_OneRowPerAthlete ==
  \A p \in Procs :
    Rebuilt(p) =>
      LET rows == RowsWithKey(match_player_stats, run[p].matchKey)
      IN /\ {IdentityOfRow(row) : row \in rows} = ReferencedAthletes(run[p].matchKey)
         /\ Cardinality(rows) = Cardinality(ReferencedAthletes(run[p].matchKey))
         /\ \A row \in rows : row.source = "DERIVED" /\ row.participated

\* A rebuild has written rows for the two athletes of the lineups and for the
\* two athletes only substitutions name.
C15_Witness ==
  /\ Rebuilt(1)
  /\ Cardinality(RowsWithKey(match_player_stats, run[1].matchKey)) = 4
  /\ \E row \in match_player_stats : row.athlete_name_raw = "Edu" /\ row.participated
  /\ \E row \in match_player_stats : row.athlete_name_raw = "Duda" /\ row.participated

\* C16: a rebuild that answers 200 right after another rebuild of the
\* match_key answered 200, the event rows being the same, leaves the same
\* derived rows as that one left, in whatever order the store returns the
\* event rows to either.
C16_RebuildIdempotent ==
  \A p \in Procs :
    (/\ Rebuilt(p)
     /\ run[p].runId >= 2
     /\ sync_runs[run[p].runId - 1].status = "DONE"
     /\ sync_runs[run[p].runId - 1].summary_json.source = "SUMULA_STATS_REBUILD")
      => RowsWithKey(match_player_stats, run[p].matchKey)
           = RowsWithKey(run[p].statsAtStart, run[p].matchKey)

\* The competition a fixture sync is working on was fetched with the same
\* content (page and details) as in the previous fixture sync, and that
\* previous sync completed.
SameContentAsCompletedSync(p) ==
  /\ run[p].op = "sync"
  /\ lastSync.ok
  /\ run[p].fetched # <<>>
  /\ \E i \in 1..Len(lastSync.fetched) :
       lastSync.fetched[i] = run[p].fetched[Len(run[p].fetched)]

\* C19: when a fixture sync fetches, for a competition, the content the
\* previous completed sync fetched, it performs no upsert on matches, and in
\* sync_state it changes nothing but last_checked_at: last_hash and
\* last_changed_at keep their values.
C19_IdenticalContentOnlyTouches ==
  [][\A p \in Procs :
       SameContentAsCompletedSync(p) =>
         /\ matches' = matches
         /\ run'[p].pc # "sync_upsert_matches"
         /\ \A c \in CompetitionIds :
              /\ IsSome(sync_state'[c]) = IsSome(sync_state[c])
              /\ IsSome(sync_state[c]) =>
                   /\ Get(sync_state'[c]).last_hash = Get(sync_state[c]).last_hash
                   /\ Get(sync_state'[c]).last_changed_at = Get(sync_state[c]).last_changed_at]_vars

\* The second sync fetched a fixture again and has touched last_checked_at.
C19_Witness ==
  /\ SameContentAsCompletedSync(1)
  /\ Len(run[1].fetched[1][2]) > 0
  /\ run[1].pc = "sync_finalize"
  /\ IsSome(sync_state["c1"])
  /\ Get(sync_state["c1"]).last_checked_at = run[1].runId
  /\ Get(sync_state["c1"]).last_changed_at < run[1].runId

\* Two rows of matches stand for the same real fixture.
SameFixture(a, b) ==
  /\ a.source = b.source
  /\ a.competition_name = b.competition_name
  /\ a.season_year = b.season_year
  /\ a.match_date = b.match_date
  /\ normalizeText(a.home_team) = normalizeText(b.home_team)
  /\ normalizeText(a.away_team) = normalizeText(b.away_team)

\* C20: the same fixture (competition, match date, home team, away team) gets
\* the same source_url in every run, with or without a detail URL, so matches
\* never holds two rows for one fixture.
C20_OneRowPerFixture ==
  \A a, b \in matches :
    SameFixture(a, b) => (a.source_url = b.source_url /\ a = b)

\* The event rows an ingest run has built and is inserting.
BuiltRows(p, table) ==
  IF run[p].op = "ingest" /\ run[p].pc = "ingest_insert" THEN run[p].rows[table] ELSE <<>>

\* C18: two event rows built for the same table and match_key that differ in
\* an identifying field (team side, half, minute, goal kind or card type,
\* athlete names, card reason, lineup role) have different event_uids.
C18_UidSeparatesEvents ==
  \A p \in Procs : \A table \in EventTables :
    \A i, j \in 1..Len(BuiltRows(p, table)) :
      BuiltRows(p, table)[i] # BuiltRows(p, table)[j]
        => BuiltRows(p, table)[i].event_uid # BuiltRows(p, table)[j].event_uid

\* C17: a match_player_stats row whose source is DERIVED is changed by no
\* step other than the delete of a rebuild for its match_key, which removes
\* every row of that match_key; an update of such a row by the pending-link
\* resolver or by a stats upsert is rejected and leaves the table as it was.
C17_DerivedRowsImmutable ==
  [][/\ \A row \in match_player_stats :
          row.source = "DERIVED" =>
            \/ row \in match_player_stats'
            \/ \E p \in Procs :
                 /\ run[p].op = "stats" /\ run[p].pc = "stats_delete"
                 /\ row.match_key = run[p].matchKey
                 /\ RowsWithKey(match_player_stats', run[p].matchKey) = {}
     /\ \A p \in Procs :
          (/\ run[p].pc \in {"resolve_update_stats", "mock_upsert_stats"}
           /\ run'[p].message = ImmutableMessage)
            => match_player_stats' = match_player_stats]_vars

\* The resolver selected the DERIVED row of an unlinked athlete, its update
\* was rejected by the trigger, and the table is as it was.
C17_Witness ==
  /\ run[1].op = "resolve"
  /\ run[1].pc = "resolve_catch"
  /\ run[1].message = ImmutableMessage
  /\ \E row \in run[1].selected : row.source = "DERIVED" /\ row \in match_player_stats
  /\ match_player_stats = run[1].statsAtStart

\* ------------------------------------------------------------------ C21
\* Two candidates of one batch with the same (source, source_url).
DuplicateKeys(rows) ==
  \E i, j \in 1..Len(rows) :
    i < j /\ rows[i].source = rows[j].source /\ rows[i].source_url = rows[j].source_url
IsLastOfKey(rows, i) ==
  \A j \in (i + 1)..Len(rows) :
    ~(rows[j].source = rows[i].source /\ rows[j].source_url = rows[i].source_url)

\* C21: when the batch a sync sends to the match registry holds two or more
\* candidates with the same (source, source_url) and the store does not
\* fault, the upsert succeeds and the registry then holds, for each key of
\* the batch, exactly the last candidate of that key; the registry never
\* holds two rows with one (source, source_url).
C21_DuplicatesCollapse ==
  [][\A p \in Procs :
       (/\ run[p].pc = "sync_upsert_matches"
        /\ DuplicateKeys(run[p].rows)
        /\ run'[p].pc # "sync_upsert_matches"
        /\ ~run'[p].fault)
       => /\ run'[p].pc = "sync_upsert_state"
          /\ \A i \in 1..Len(run[p].rows) :
               IsLastOfKey(run[p].rows, i) => run[p].rows[i] \in matches'
          /\ \A a, b \in matches' :
               (a.source = b.source /\ a.source_url = b.source_url) => a = b]_vars

\* ------------------------------------------------------------------ C22
\* C22: every started run terminates, also when the external source never
\* answers a request: a request that is running eventually returns.
C22_RunsTerminate ==
  \A p \in Procs : (run[p].pc \notin {"idle", "done"}) ~> (run[p].pc = "done")

\* ------------------------------------------------------------------ C23
\* The event and statistics rows stored for a match_key.
StoredForKey(tables, stats, matchKey) ==
  [events |-> [t \in EventTables |-> RowsWithKey(tables[t], matchKey)],
   stats |-> RowsWithKey(stats, matchKey)]

\* C23: a step changes the event or statistics rows of a match_key only
\* when it is a step of an ingest or a rebuild that runs for that match_key,
\* whether the run then succeeds or fails; so with two runs for different
\* match_keys in flight at once, a run that succeeds leaves for its
\* match_key exactly the rows it built, as it does when it runs alone.
C23_OtherKeysUntouched ==
  [][/\ \A matchKey \in MatchKeys :
          StoredForKey(event_tables', match_player_stats', matchKey)
              # StoredForKey(event_tables, match_player_stats, matchKey)
            => \E p \in Procs : /\ run'[p] # run[p]
                                /\ run[p].op \in {"ingest", "stats"}
                                /\ run[p].matchKey = matchKey
     /\ \A p \in Procs :
          /\ (run[p].pc = "ingest_finalize" /\ run'[p].pc = "done")
               => \A t \in EventTables :
                    RowsWithKey(event_tables'[t], run[p].matchKey) = Range(run[p].rows[t])
          /\ (run[p].pc = "stats_finalize" /\ run'[p].pc = "done")
               => RowsWithKey(match_player_stats', run[p].matchKey) = Range(run[p].rows)]_vars

\* Both runs are between their delete and the end of their inserts, and the
\* rows of the other match_key are in place.
C23_Witness ==
  /\ run[1].op = "ingest" /\ run[1].pc = "ingest_insert" /\ run[1].file = "match_goals"
  /\ run[2].op = "stats" /\ run[2].pc = "stats_insert" /\ Len(run[2].rows) > 0
  /\ run[1].matchKey # run[2].matchKey
  /\ RowsWithKey(match_lineups, run[2].matchKey) # {}
  /\ RowsWithKey(match_player_stats, run[1].matchKey) = {ManualRow}
  /\ RowsWithKey(match_player_stats, run[2].matchKey) = {}

\* ------------------------------------------------------------------ C24
\* The value a JSON field stands for when it is read as an integer: a
\* number without a fraction, or a string of digits (spaces around it
\* aside); None otherwise.
IntegerOf(v) ==
  IF IsNum(v) THEN Some(v.n)
  ELSE IF IsStr(v) /\ Trim(v.s) # "" /\ IsDigits(Trim(v.s)) THEN Some(ToNumber(Trim(v.s)))
  ELSE None
\* The word a JSON field stands for, letter case and spaces around it aside.
WordOf(v) == IF IsStr(v) THEN Trim(ToUpperCase(v.s)) ELSE ""

\* The event violates one of the rules of the validation.
Violates(event) ==
  \/ WordOf(event.team_side) \notin {"HOME", "AWAY"}
  \/ ~IsSome(IntegerOf(event.half)) \/ Get(IntegerOf(event.half)) \notin {1, 2}
  \/ ~IsSome(IntegerOf(event.minute)) \/ Get(IntegerOf(event.minute)) < 0
  \/ WordOf(event.type) \notin {"GOAL", "CARD", "SUBSTITUTION"}
  \/ WordOf(event.type) = "CARD" /\ WordOf(event.card_type) \notin CardTypes
  \/ WordOf(event.type) = "SUBSTITUTION"
       /\ (WordOf(event.athlete_out_name) = "" \/ WordOf(event.athlete_in_name) = "")

EventsOf(documentId) == Get(TheDocument(documentId).canonical_json).events
KeptEvents(events) == {i \in 1..Len(events) : ~Violates(events[i])}
StoredEvents == match_goals \cup match_cards \cup match_substitutions

\* Every stored row has a valid side, and every event row a valid half,
\* minute and, for a card, card type.
C24_RowsValid ==
  /\ \A t \in EventTables : \A row \in event_tables[t] : row.team_side \in {"HOME", "AWAY"}
  /\ \A row \in StoredEvents : row.half \in {1, 2} /\ row.minute \in Nat
  /\ \A row \in match_cards : row.card_type \in CardTypes

\* An ingest the store does not fail answers 200 whatever the events are
\* (two equal events aside), and the counts of its summary are the numbers
\* of rows stored.
C24_CountsMatch ==
  \A p \in Procs :
    Returned(p, "ingest") =>
      /\ (~run[p].fault /\ EventsOf(run[p].documentId)[1] # EventsOf(run[p].documentId)[2])
           => run[p].response.http = 200
      /\ run[p].response.http = 200
           => \A t \in EventTables :
                sync_runs[run[p].runId].summary_json.inserted[t]
                  = Cardinality(event_tables[t])

\* C24: every row an ingest inserts has team_side HOME or AWAY, half 1 or
\* 2, a non-negative integer minute and, for a card, a card type of the
\* enum; an event that violates one of these, has an unknown type or is a
\* substitution without both names is dropped and does not fail the run;
\* the counts of the run summary are the numbers of rows inserted.
C24_MalformedEventsDropped ==
  /\ C24_RowsValid
  /\ C24_CountsMatch
  /\ \A p \in Procs :
       (Returned(p, "ingest") /\ run[p].response.http = 200)
         => Cardinality(StoredEvents) <= Cardinality(KeptEvents(EventsOf(run[p].documentId)))

\* ------------------------------------------------------------------- C25
\* Ids without a ':' (uuid columns hold hex digits and '-' only).
KeyIds == MatchIds \cup SandboxIds \cup {"m-1", "1", "s1-"}

FirstColon(key) == CHOOSE i \in 1..(Len(key) + 1) :
                     /\ i = Len(key) + 1 \/ CharAt(key, i) = ":"
                     /\ \A j \in 1..(i - 1) : CharAt(key, j) # ":"

SplitMatchKey(key) == <<Take(key, FirstColon(key) - 1), Drop(key, FirstColon(key))>>

ScopeIdOfDocument(d) == IF d.scope = "PROD" THEN d.match_id ELSE d.sandbox_match_id

\* C25: the match_key derivation is injective over valid (scope, id) pairs and
\* splitting a key at its first ':' gives back the scope and the id; every
\* stored document has exactly one of match_id / sandbox_match_id set, the one
\* of its scope, and its match_key is the key derived from scope and id.
C25_MatchKeyDerivation ==
  /\ \A a \in Scopes \X KeyIds :
       /\ SplitMatchKey(MatchKeyOf(a[1], a[2])) = a
       /\ \A b \in Scopes \X KeyIds : MatchKeyOf(a[1], a[2]) = MatchKeyOf(b[1], b[2]) => a = b
  /\ \A d \in documents :
       /\ d.scope \in Scopes
       /\ (d.scope = "PROD") <=> (d.match_id # "")
       /\ (d.scope = "SANDBOX") <=> (d.sandbox_match_id # "")
       /\ d.match_key = MatchKeyOf(d.scope, ScopeIdOfDocument(d))
       /\ SplitMatchKey(d.match_key) = <<d.scope, ScopeIdOfDocument(d)>>

\* A sandbox document stored by an upload that returned 200, next to a
\* production document.
C25_Witness ==
  /\ run[1].pc = "done" /\ run[1].op = "upload" /\ run[1].response.http = 200
  /\ SplitMatchKey(run[1].matchKey) = <<"SANDBOX", "s1">>
  /\ \E d \in documents : d.scope = "SANDBOX" /\ d.match_key = run[1].matchKey
  /\ \E d \in documents : d.scope = "PROD"

\* ------------------------------------------------------------------- C26
InFlight(p) == run[p].pc \notin {"idle", "done"}
OneAtATime == ~(InFlight(1) /\ InFlight(2))
NoStoreFault == \A p \in Procs : ~run[p].fault

\* The rows an ingest builds from the document's canonical_json, per table
\* in the order of the insert, and as sets.
RowsToInsert(d) ==
  LET canonical == Get(d.canonical_json)
      parsedEvents == parseCanonicalEvents(canonical.events, d.id, d.match_id, d.match_key)
  IN [t \in EventTables |->
        CASE t = "match_lineups" -> LineupRowsOf(d.id, d.match_id, d.match_key, canonical)
          [] t = "match_goals" -> parsedEvents.goals
          [] t = "match_cards" -> parsedEvents.cards
          [] OTHER -> parsedEvents.substitutions]

MaterializedRows(d) == [t \in EventTables |-> Range(RowsToInsert(d)[t])]

StoredRows(d) == [t \in EventTables |-> RowsWithKey(event_tables[t], d.match_key)]

\* The messages the catch block of the ingest route can write to parse_error.
IngestFailureMessages ==
  {InsertMessage(t) : t \in EventTables}
    \cup {"Document not found.", "documents.canonical_json is missing or invalid.",
          "Could not delete previous events for match_key",
          "Could not update document status", "Could not finalize sync run."}

\* No request is in flight and the document says EVENTS_SAVED over rows that
\* are not those of its canonical_json, or an ingest marked it ERROR and the
\* complete rows are stored.
Corrupted(d) ==
  /\ \A p \in Procs : ~InFlight(p)
  /\ IsSome(d.canonical_json)
  /\ \/ d.status = "EVENTS_SAVED" /\ StoredRows(d) # MaterializedRows(d)
     \/ /\ d.status = "ERROR" /\ d.parse_error \in IngestFailureMessages
        /\ StoredRows(d) = MaterializedRows(d)

C26_WitnessParse ==
  /\ \A p \in Procs : run[p].pc = "done" /\ ~run[p].fault /\ run[p].response.http = 200
  /\ \E p \in Procs : run[p].op = "parse"
  /\ \E d \in documents : Corrupted(d) /\ d.status = "EVENTS_SAVED"

\* ------------------------------------------------------------------- C27
InFlightCalls(pool) == {w \in DOMAIN pool.current : IsSome(pool.current[w])}
Indices(pool) == 0..(Len(pool.items) - 1)

\* C27: mapWithConcurrency(items, 3, worker) never has more than 3 worker
\* calls in flight, never calls the worker twice for an item, and when it
\* completes the worker was called once for every item, every call has
\* returned, and results[i] is what the worker returned for items[i].
C27_BoundedOrderedPool ==
  \A p \in Procs : run[p].op = "map" =>
    LET pool == run[p].pool
    IN /\ Cardinality(InFlightCalls(pool)) <= 3
       /\ \A v, w \in InFlightCalls(pool) : pool.current[v] = pool.current[w] => v = w
       /\ \A i \in Indices(pool) : pool.calls[i] <= 1
       /\ run[p].pc = "done" =>
            /\ InFlightCalls(pool) = {}
            /\ \A i \in Indices(pool) :
                 /\ pool.calls[i] = 1
                 /\ IsSome(pool.returned[i])
                 /\ pool.results[i] = pool.returned[i]
                 /\ Get(pool.results[i]).item = pool.items[i + 1]

\* The call has completed for more items than the limit, some with a
\* details page that gave a score and some without.
C27_Witness ==
  /\ run[1].op = "map" /\ run[1].pc = "done"
  /\ Len(run[1].pool.items) > 3
  /\ \E i, j \in Indices(run[1].pool) :
       /\ Get(run[1].pool.results[i]).details # NoDetails
       /\ Get(run[1].pool.results[j]).details = NoDetails

\* Three calls are in flight and a later item's result is stored while an
\* earlier item's call has not returned.
C27_WitnessOutOfOrder ==
  /\ run[1].op = "map" /\ run[1].pc = "map_await"
  /\ Cardinality(InFlightCalls(run[1].pool)) = 3
  /\ \E w \in InFlightCalls(run[1].pool) : \E i \in Indices(run[1].pool) :
       i > Get(run[1].pool.current[w]) /\ IsSome(run[1].pool.results[i])

\* ------------------------------------------------------------------- C28
\* C28: with at most one operation in flight per document, whenever no
\* operation is in flight a document whose status is EVENTS_SAVED has, for
\* its match_key, exactly the rows materialized from its canonical_json in
\* the four event tables.
C28_EventsSavedMeansStored ==
  (\A p \in Procs : ~InFlight(p)) =>
    \A d \in documents :
      d.status = "EVENTS_SAVED" =>
        /\ IsSome(d.canonical_json)
        /\ StoredRows(d) = MaterializedRows(d)

\* ------------------------------------------------------------------- C29
\* Two rows of one insert agree on (match_key, event_uid).
RepeatsUid(rows) ==
  \E i, j \in 1..Len(rows) :
    i # j /\ rows[i].match_key = rows[j].match_key /\ rows[i].event_uid = rows[j].event_uid

HasRepeat(d) == \E t \in EventTables : RepeatsUid(RowsToInsert(d)[t])

\* C29: an ingest of a valid report in which two entries yield one
\* event_uid does not collapse them.  The insert that carries the two rows
\* is rejected whole and the run throws at INSERT_EVENTS, the rows stored
\* for the match_key before the run being deleted by then; the run answers
\* 500 and leaves the document marked ERROR with the insert's message (or,
\* when the update of the catch block does not reach the store, as it was).
C29_RepeatedUidRejected ==
  /\ [][\A p \in Procs :
          (run[p].pc = "ingest_insert" /\ RepeatsUid(run[p].rows[run[p].file])
             /\ run'[p] # run[p])
          => /\ run'[p].pc = "ingest_catch_document"
             /\ run'[p].failedAt = "INSERT_EVENTS"
             /\ run'[p].message = InsertMessage(run[p].file)
             /\ event_tables' = event_tables
             /\ RowsWithKey(event_tables[run[p].file], run[p].matchKey) = {}
             /\ \A t \in EventTables :
                  RowsWithKey(event_tables[t], run[p].matchKey) \subseteq Range(run[p].rows[t])]_vars
  /\ [](\A p \in Procs : \A d \in documents :
          (Returned(p, "ingest") /\ HasRepeat(d))
          => /\ run[p].response.http = 500
             /\ d.status \in {"ERROR", "CANONICAL"}
             /\ d.status = "ERROR" => d.parse_error # ""
             /\ \E t \in EventTables : StoredRows(d)[t] = {})

\* The run met the two goals of one event_uid with no store call failing:
\* the document is ERROR with the message of the goals insert, the lineups
\* of this run are stored and no goal is.
C29_Witness ==
  /\ Returned(1, "ingest") /\ ~run[1].fault /\ run[1].failedAt = "INSERT_EVENTS"
  /\ \E d \in documents :
       /\ RepeatsUid(RowsToInsert(d)["match_goals"])
       /\ d.status = "ERROR" /\ d.parse_error = InsertMessage("match_goals")
       /\ StoredRows(d)["match_goals"] = {}
       /\ StoredRows(d)["match_lineups"] # {}

\* The same for a starter listed twice: no row of the match_key is left.
C29_WitnessLineup ==
  /\ Returned(1, "ingest") /\ ~run[1].fault /\ run[1].failedAt = "INSERT_EVENTS"
  /\ \E d \in documents :
       /\ RepeatsUid(RowsToInsert(d)["match_lineups"])
       /\ d.status = "ERROR" /\ d.parse_error = InsertMessage("match_lineups")
       /\ \A t \in EventTables : StoredRows(d)[t] = {}

\* ------------------------------------------------------------------- C30
EventOnlyTables == EventTables \ {"match_lineups"}

DerivedRows(matchKey) ==
  {row \in match_player_stats : row.match_key = matchKey /\ row.source = "DERIVED"}

\* The lineup rows stored for the athlete of a statistics row.
LineupRowsFor(row) ==
  {l \in RowsWithKey(match_lineups, row.match_key) :
     l.team_side = row.team_side /\ l.athlete_name_raw = row.athlete_name_raw}

\* C30: a canonical_json produced by parseDocument has no events, so an
\* ingest builds no goal, card or substitution row and none is stored, and a
\* rebuild that follows gives every athlete of the lineups a row with
\* goals = assists = yellow_cards = red_cards = 0 and minutes_played 90 for
\* a starter and 0 for a reserve.
C30_ParsedReportsHaveNoEvents ==
  /\ \A d \in documents : IsSome(d.raw_text) =>
       /\ d.canonical_json = Some(parseToCanonical(Get(d.raw_text)))
       /\ Get(d.canonical_json).events = <<>>
  /\ \A t \in EventOnlyTables : event_tables[t] = {}
  /\ \A p \in Procs : \A t \in EventOnlyTables :
       (run[p].op = "ingest" /\ run[p].pc \in {"ingest_insert", "ingest_save_document",
                                                "ingest_finalize"})
       => run[p].rows[t] = <<>>
  /\ \A p \in Procs :
       (Returned(p, "stats") /\ run[p].response.http = 200) =>
         /\ \A l \in RowsWithKey(match_lineups, run[p].matchKey) :
              \E row \in DerivedRows(run[p].matchKey) : l \in LineupRowsFor(row)
         /\ \A row \in DerivedRows(run[p].matchKey) :
              /\ row.goals = 0 /\ row.assists = 0
              /\ row.yellow_cards = 0 /\ row.red_cards = 0
              /\ LineupRowsFor(row) # {}
              /\ (\E l \in LineupRowsFor(row) : l.role = "STARTER") => row.minutes_played = 90
              /\ (\A l \in LineupRowsFor(row) : l.role = "RESERVE") => row.minutes_played = 0

\* A rebuild for the match of pdfA has returned: its starter has 90 minutes
\* and its reserve none.
C30_Witness ==
  /\ Returned(1, "stats") /\ run[1].response.http = 200
  /\ \E a, b \in DerivedRows(run[1].matchKey) :
       /\ a.started /\ a.minutes_played = 90
       /\ ~b.started /\ b.minutes_played = 0

\* An ingest of the report of pdfB is past its inserts, with lineup rows only.
C30_WitnessIngest ==
  /\ run[2].op = "ingest" /\ run[2].pc = "ingest_finalize"
  /\ Len(run[2].rows["match_lineups"]) > 0
  /\ \A t \in EventOnlyTables : run[2].rows[t] = <<>>

====
